---- MODULE Spec2Model ----
(***************************************************************************)
(* Model of the S3 documentation server's synchronisation engine           *)
(* (src/src/services/sync-service.ts) and of its vector index              *)
(* (hnswlib-vector-store.ts, src/unnamed/part_003 lines 1-450).            *)
(*                                                                         *)
(* The specifications share the definitions:                               *)
(*   Spec          one caller running performSync against a changing       *)
(*                 bucket                                                  *)
(*   SpecRestart   Spec with process restarts                              *)
(*   SpecDetect    detectChanges on every bounded SyncState and listing    *)
(*   SpecIndex     direct calls of addDocuments, removeByKey, clearAll     *)
(*   SpecScenario  successive incremental runs from the empty state        *)
(*   SpecConc      two callers running performSync with no coordination    *)
(***************************************************************************)
EXTENDS Integers, Sequences, FiniteSets, TLC

\* ------------------------------------------------------------------------
\* Bounds and value sets
\* ------------------------------------------------------------------------

\* Largest number of chunk ids the process refers to at once.
MaxIds == 3

\* Largest number of restarts of the server in one behaviour.
MaxRestarts == 1

\* Largest number of runs a scenario follows.
MaxRuns == 3

\* Largest k a caller passes to similaritySearch.
MaxK == 2

\* Longest Authorization header and api_key parameter, in pieces.
MaxHeader == 3

MaxQuery == 2

\* Remote keys in the order ListObjectsV2 returns them (ascending by key).
KeySeq == <<"a.md", "b.md">>

Keys == {KeySeq[i] : i \in 1..Len(KeySeq)}

Etags == {"etag1", "etag2"}

Times == {"t1", "t2"}

Sizes == {0, 7}

Range(s) == {s[i] : i \in 1..Len(s)}

\* ------------------------------------------------------------------------
\* SyncState.documents: records in insertion order (a JS object keeps it)
\* ------------------------------------------------------------------------

HasKey(documents, key) == \E i \in 1..Len(documents) : documents[i].key = key

GetDoc(documents, key) ==
    documents[CHOOSE i \in 1..Len(documents) : documents[i].key = key]

\* documents[key] = rec: an existing property keeps its position.
PutDoc(documents, rec) ==
    IF HasKey(documents, rec.key)
    THEN [i \in 1..Len(documents) |->
             IF documents[i].key = rec.key THEN rec ELSE documents[i]]
    ELSE Append(documents, rec)

\* delete documents[key]
DeleteDoc(documents, key) ==
    LET Keep(r) == r.key # key IN SelectSeq(documents, Keep)

\* ------------------------------------------------------------------------
\* detectChanges
\* ------------------------------------------------------------------------

\* A variant that reports every tracked key as deleted.
detectChangesAllDeleted(documents, s3Documents) ==
    LET IsNew(d) == ~HasKey(documents, d.key)
        IsMod(d) == HasKey(documents, d.key)
                    /\ GetDoc(documents, d.key).etag # d.etag
        IsSame(d) == HasKey(documents, d.key)
                     /\ GetDoc(documents, d.key).etag = d.etag
    IN [new |-> SelectSeq(s3Documents, IsNew),
        modified |-> SelectSeq(s3Documents, IsMod),
        deleted |-> [i \in 1..Len(documents) |-> documents[i].key],
        unchanged |-> SelectSeq(s3Documents, IsSame)]

\* A variant that takes lastModified, not the etag, as the change signal.
detectChangesNoEtag(documents, s3Documents) ==
    LET IsNew(d) == ~HasKey(documents, d.key)
        IsMod(d) == HasKey(documents, d.key)
                    /\ GetDoc(documents, d.key).lastModified # d.lastModified
        IsSame(d) == HasKey(documents, d.key)
                     /\ GetDoc(documents, d.key).lastModified = d.lastModified
        Gone(r) == r.key \notin {s3Documents[i].key : i \in 1..Len(s3Documents)}
        gone == SelectSeq(documents, Gone)
    IN [new |-> SelectSeq(s3Documents, IsNew),
        modified |-> SelectSeq(s3Documents, IsMod),
        deleted |-> [i \in 1..Len(gone) |-> gone[i].key],
        unchanged |-> SelectSeq(s3Documents, IsSame)]

detectChanges(documents, s3Documents) ==
    LET s3Keys == {s3Documents[i].key : i \in 1..Len(s3Documents)}
        IsNew(d) == ~HasKey(documents, d.key)
        IsMod(d) == HasKey(documents, d.key)
                    /\ GetDoc(documents, d.key).etag # d.etag
        IsSame(d) == HasKey(documents, d.key)
                     /\ GetDoc(documents, d.key).etag = d.etag
        Gone(r) == r.key \notin s3Keys
        gone == SelectSeq(documents, Gone)
    IN [new |-> SelectSeq(s3Documents, IsNew),
        modified |-> SelectSeq(s3Documents, IsMod),
        deleted |-> [i \in 1..Len(gone) |-> gone[i].key],
        unchanged |-> SelectSeq(s3Documents, IsSame)]

\* ------------------------------------------------------------------------
\* State
\* ------------------------------------------------------------------------

VARIABLES
    remote,       \* the bucket: key -> [present, etag, lastModified, content]
    documents,    \* SyncService.syncState.documents (in memory)
    diskSync,     \* ./data/.sync-state.json: the documents last saved
    store,        \* HNSWVectorStore.store: the docstore's chunks, in order
    keyIndex,     \* HNSWVectorStore.keyIndex: key -> chunk ids (<<>> = no entry)
    diskStore,    \* snapshot directory: the chunks last saved (<<>> = none)
    pc,           \* per caller: position inside performSync
    mode,         \* per caller: 'full' | 'incremental'
    queue,        \* per caller: the documents still to process, in order
    metrics,      \* per caller: the SyncMetrics of its current or last run
    prevRun,      \* the run before the caller's latest one, on the same
                  \* bucket contents: "none" | "clean" | "errors", or
                  \* "crashed" when the process stopped inside it
    restarts,     \* how many times the server was started again
    lastCall,     \* the latest direct call on the vector index and its outcome
    trail,        \* SpecScenario: per finished run, the listing and the metrics
    rebuild,      \* per caller: removeByKey's keptDocs while the store is rebuilt
    search,       \* the latest similaritySearch: when it ran, what it found
    ssK,          \* SpecRank: <<the k passed to similaritySearch>>, <<>> if none
    ssNeighbours, \* SpecRank: what similaritySearchWithScore resolves to
    ssResults,    \* SpecRank: <<the SearchResult[] returned>>, <<>> before
    gfd,          \* SpecGet: a get_full_document call and what it settles to
    auth,         \* SpecAuth: a request, the auth configuration, the outcome
    calm,         \* SpecConverge: the bucket has stopped changing and the
                  \* remote and embedding calls have stopped failing
    boot,         \* how the latest start found the snapshot and the sync state
    reply,        \* the latest result of the refresh_index tool
    dcDocuments,  \* SpecDetect: the SyncState.documents detectChanges reads
    dcListing,    \* SpecDetect: the remote listing passed to detectChanges
    dcChanges     \* SpecDetect: <<the DetectedChanges returned>>, <<>> before

ixVars == <<store, keyIndex, diskStore>>

syncVars == <<documents, diskSync>>

runVars == <<pc, mode, queue, metrics, prevRun>>

dcVars == <<dcDocuments, dcListing, dcChanges>>

ssVars == <<ssK, ssNeighbours, ssResults>>

obsVars == <<rebuild, search, ssVars, gfd, boot, auth, calm>>

vars == <<remote, documents, diskSync, store, keyIndex, diskStore, pc, mode,
          queue, metrics, prevRun, restarts, lastCall, trail, rebuild,
          search, ssK, ssNeighbours, ssResults, gfd, boot, auth, calm,
          reply, dcDocuments,
          dcListing, dcChanges>>

\* ------------------------------------------------------------------------
\* HNSWVectorStore
\* ------------------------------------------------------------------------

\* Document bodies: "" is the empty object, " " is whitespace only, "P1" is
\* one paragraph within chunkSize, "P1+P2" is two paragraphs of chunkSize.
\* RecursiveCharacterTextSplitter.createDocuments: no chunk for empty
\* content, none for content that is blank once trimmed, one per paragraph
\* of chunkSize otherwise.
splitDocument(content) ==
    CASE content = "" -> <<>>
      [] content = " " -> <<>>
      [] content = "P1" -> <<"P1">>
      [] content = "P1+P2" -> <<"P1", "P2">>

NoIndex == [k \in Keys |-> <<>>]

IdsOf(chunks) == {chunks[i].id : i \in 1..Len(chunks)}

\* Every chunk id the running process still refers to.
UsedIds(st, kx) == IdsOf(st) \cup UNION {Range(kx[k]) : k \in Keys}

\* randomUUID(): an id that nothing in the process refers to. Ids are
\* opaque and only ever compared for equality; they are written
\* <<key, n>> with the least n that is free.
NewId(used, key) ==
    <<key, CHOOSE n \in 1..(Cardinality(used) + 1) :
              /\ <<key, n>> \notin used
              /\ \A j \in 1..(n - 1) : <<key, j>> \in used>>

\* A variant that writes whatever the store holds.
saveAlways(st, disk) == st

\* save(): HNSWLib cannot write a store that never received a document; the
\* failure is caught and the snapshot on disk stays as it was.
save(st, disk) == IF st = <<>> THEN disk ELSE st

\* The docs.map callback of addDocuments, document by document: a new id
\* is pushed onto keyIndex[key] and stamped on the document.
RECURSIVE MapDocs(_, _, _)
MapDocs(st, kx, docs) ==
    IF docs = <<>> THEN [keyIndex |-> kx, documents |-> <<>>]
    ELSE LET doc == Head(docs)
             id == NewId(UsedIds(st, kx), doc.key)
             rest == MapDocs(st, [kx EXCEPT ![doc.key] = Append(@, id)],
                             Tail(docs))
         IN [keyIndex |-> rest.keyIndex,
             documents |->
                <<[id |-> id, key |-> doc.key, etag |-> doc.etag,
                   chunkIndex |-> doc.chunkIndex,
                   totalChunks |-> doc.totalChunks,
                   pageContent |-> doc.content]>> \o rest.documents]

\* addDocuments(docs): keyIndex is updated while the documents are built,
\* before store.addDocuments embeds and inserts them.
addDocuments(st, kx, disk, docs, embedOk) ==
    LET built == MapDocs(st, kx, docs)
    IN IF docs # <<>> /\ ~embedOk
       THEN [store |-> st, keyIndex |-> built.keyIndex, disk |-> disk,
             threw |-> TRUE]
       ELSE [store |-> st \o built.documents, keyIndex |-> built.keyIndex,
             disk |-> save(st \o built.documents, disk), threw |-> FALSE]

\* clearAll()
clearAll(st, kx, disk) ==
    [store |-> <<>>, keyIndex |-> NoIndex, disk |-> disk]

\* A variant that makes the new store and never puts the kept chunks back.
removeByKeyNoRebuild(st, kx, disk, s3Key, embedOk) ==
    IF kx[s3Key] = <<>>
    THEN [store |-> st, keyIndex |-> kx, disk |-> disk,
          threw |-> FALSE, removed |-> 0]
    ELSE [store |-> <<>>, keyIndex |-> [kx EXCEPT ![s3Key] = <<>>],
          disk |-> disk, threw |-> FALSE, removed |-> Len(kx[s3Key])]

\* A variant that writes the snapshot after every removal, empty or not.
removeByKeySaveEmpty(st, kx, disk, s3Key, embedOk) ==
    LET Kept(c) == c.id \notin Range(kx[s3Key])
    IN IF kx[s3Key] = <<>>
       THEN [store |-> st, keyIndex |-> kx, disk |-> disk,
             threw |-> FALSE, removed |-> 0]
       ELSE IF SelectSeq(st, Kept) # <<>> /\ ~embedOk
       THEN [store |-> <<>>, keyIndex |-> kx, disk |-> disk,
             threw |-> TRUE, removed |-> 0]
       ELSE [store |-> SelectSeq(st, Kept),
             keyIndex |-> [kx EXCEPT ![s3Key] = <<>>],
             disk |-> SelectSeq(st, Kept),
             threw |-> FALSE, removed |-> Len(kx[s3Key])]

\* A variant that returns the number of chunks it took out of the store.
removeByKeyCountingChunks(st, kx, disk, s3Key, embedOk) ==
    LET idsToRemove == kx[s3Key]
        Kept(c) == c.id \notin Range(idsToRemove)
        keptDocs == SelectSeq(st, Kept)
    IN IF idsToRemove = <<>>
       THEN [store |-> st, keyIndex |-> kx, disk |-> disk,
             threw |-> FALSE, removed |-> 0]
       ELSE IF keptDocs # <<>> /\ ~embedOk
       THEN [store |-> <<>>, keyIndex |-> kx, disk |-> disk,
             threw |-> TRUE, removed |-> 0]
       ELSE [store |-> keptDocs, keyIndex |-> [kx EXCEPT ![s3Key] = <<>>],
             disk |-> IF keptDocs # <<>> THEN save(keptDocs, disk) ELSE disk,
             threw |-> FALSE, removed |-> Len(st) - Len(keptDocs)]

\* removeByKey(s3Key): rebuild the store from the chunks whose id is not
\* listed under the key; store.addDocuments embeds the kept chunks again.
removeByKey(st, kx, disk, s3Key, embedOk) ==
    LET idsToRemove == kx[s3Key]
        Kept(c) == c.id \notin Range(idsToRemove)
        keptDocs == SelectSeq(st, Kept)
    IN IF idsToRemove = <<>>
       THEN [store |-> st, keyIndex |-> kx, disk |-> disk,
             threw |-> FALSE, removed |-> 0]
       ELSE IF keptDocs # <<>> /\ ~embedOk
       THEN [store |-> <<>>, keyIndex |-> kx, disk |-> disk,
             threw |-> TRUE, removed |-> 0]
       ELSE [store |-> keptDocs, keyIndex |-> [kx EXCEPT ![s3Key] = <<>>],
             disk |-> IF keptDocs # <<>> THEN save(keptDocs, disk) ELSE disk,
             threw |-> FALSE, removed |-> Len(idsToRemove)]

\* hasDocument(s3Key)
hasDocument(kx, s3Key) == kx[s3Key] # <<>>

\* getUniqueFileCount() and getStats().uniqueFiles
getUniqueFileCount(kx) == Cardinality({k \in Keys : kx[k] # <<>>})

RECURSIVE SumLen(_, _)
SumLen(kx, ks) ==
    IF ks = {} THEN 0
    ELSE LET k == CHOOSE x \in ks : TRUE
         IN Len(kx[k]) + SumLen(kx, ks \ {k})

\* getStats().totalChunks: counted from keyIndex
totalChunks(kx) == SumLen(kx, Keys)

\* The score 1.0, scores and distances being counted in tenths.
Unit == 10

\* config.rag.minSimilarityScore (0.5) and config.rag.maxResults.
minSimilarityScore == 5

maxResults == 4

\* k ?? config.rag.maxResults, k being <<>> when the caller gives none.
MaxResults(k) == IF k = <<>> THEN maxResults ELSE k[1]

\* A variant that returns every neighbour, whatever its score.
similaritySearchNoFilter(results) ==
    [i \in 1..Len(results) |-> [chunk |-> i, score |-> Unit - results[i]]]

\* similaritySearch, from the answer of similaritySearchWithScore on:
\* each distance becomes the score 1 - distance, and the results below
\* the threshold are filtered out, the order kept.
similaritySearch(results) ==
    LET allResults == [i \in 1..Len(results) |->
                          [chunk |-> i, score |-> Unit - results[i]]]
    IN SelectSeq(allResults, LAMBDA r : r.score >= minSimilarityScore)

\* rebuildKeyIndexFromFile(docstoreData): group the persisted ids by key.
rebuildKeyIndexFromFile(docstoreData) ==
    [k \in Keys |->
        LET Mine(c) == c.key = k
            mine == SelectSeq(docstoreData, Mine)
        IN [i \in 1..Len(mine) |-> mine[i].id]]

\* Where initialize() can throw once the two snapshot files exist:
\* <<"load">> in HNSWLib.load, <<"read">> in readFileSync or JSON.parse of
\* docstore.json, <<"entry", i>> in rebuildKeyIndexFromFile at an i-th
\* entry whose document has no metadata. <<>>: nowhere.
InitFaults(disk) ==
    {<<>>, <<"load">>, <<"read">>} \cup {<<"entry", i>> : i \in 1..Len(disk)}

\* initialize() on a new HNSWVectorStore, whose keyIndex is an empty Map:
\* load the snapshot when its two files exist, otherwise start from a new
\* empty store. The catch branch replaces the store and leaves keyIndex as
\* the loop of rebuildKeyIndexFromFile left it.
initialize(disk, fail) ==
    IF disk = <<>> THEN [store |-> <<>>, keyIndex |-> NoIndex]
    ELSE IF fail = <<>>
    THEN [store |-> disk, keyIndex |-> rebuildKeyIndexFromFile(disk)]
    ELSE IF fail[1] = "entry"
    THEN [store |-> <<>>,
          keyIndex |-> rebuildKeyIndexFromFile(SubSeq(disk, 1, fail[2] - 1))]
    ELSE [store |-> <<>>, keyIndex |-> NoIndex]

\* ------------------------------------------------------------------------
\* S3Loader
\* ------------------------------------------------------------------------

Absent == [present |-> FALSE, etag |-> "etag1", lastModified |-> "t1",
           content |-> ""]

\* The objects a key can hold. S3 derives the ETag from the bytes, so each
\* body has its own etag.
Objects ==
    {[present |-> TRUE, etag |-> "etag1", lastModified |-> "t1",
      content |-> "P1"],
     [present |-> TRUE, etag |-> "etag2", lastModified |-> "t2",
      content |-> "P1+P2"],
     [present |-> TRUE, etag |-> "etag3", lastModified |-> "t1",
      content |-> " "],
     [present |-> TRUE, etag |-> "etag4", lastModified |-> "t2",
      content |-> ""]}

\* What is written under each key: every kind of body under the first key,
\* an ordinary one-paragraph document under the others.
ObjectsOf(k) ==
    IF k = KeySeq[1] THEN Objects ELSE {o \in Objects : o.content = "P1"}

SizeOf(content) ==
    CASE content = "" -> 0
      [] content = " " -> 1
      [] content = "P1" -> 2
      [] content = "P1+P2" -> 5

\* listMarkdownFiles(): one S3Document per object, without content.
listMarkdownFiles(bucket) ==
    LET There(k) == bucket[k].present
        keys == SelectSeq(KeySeq, There)
    IN [i \in 1..Len(keys) |->
           [key |-> keys[i], etag |-> bucket[keys[i]].etag,
            lastModified |-> bucket[keys[i]].lastModified,
            size |-> SizeOf(bucket[keys[i]].content)]]

\* ------------------------------------------------------------------------
\* SyncService
\* ------------------------------------------------------------------------

\* loadSyncState(): the persisted documents, or none when the file is
\* missing or cannot be parsed.
\* A variant that keeps what it could read of a file it cannot parse.
loadSyncStateKeep(file, readOk) == file

loadSyncState(file, readOk) == IF readOk THEN file ELSE <<>>

documentsToIndex(doc, chunks) ==
    [i \in 1..Len(chunks) |->
        [content |-> chunks[i], key |-> doc.key, etag |-> doc.etag,
         chunkIndex |-> i - 1, totalChunks |-> Len(chunks)]]

\* A variant that marks a document without chunks as an error.
SyncRecordOfMarking(doc, chunks) ==
    [key |-> doc.key, etag |-> doc.etag, lastModified |-> doc.lastModified,
     chunkCount |-> Len(chunks),
     status |-> IF chunks = <<>> THEN "error" ELSE "indexed"]

SyncRecordOf(doc, chunks) ==
    [key |-> doc.key, etag |-> doc.etag, lastModified |-> doc.lastModified,
     chunkCount |-> Len(chunks), status |-> "indexed"]

\* A variant that indexes the chunks and forgets the sync state record.
indexDocumentNoRecord(st, kx, disk, docs, s3Doc, obj, fetchOk, embedOk) ==
    LET added == addDocuments(st, kx, disk,
                              documentsToIndex(s3Doc,
                                               splitDocument(obj.content)),
                              embedOk)
    IN IF ~obj.present \/ ~fetchOk \/ obj.content = ""
       THEN [store |-> st, keyIndex |-> kx, disk |-> disk,
             documents |-> docs, threw |-> TRUE]
       ELSE [store |-> added.store, keyIndex |-> added.keyIndex,
             disk |-> added.disk, documents |-> docs, threw |-> added.threw]

\* A variant that writes the sync state record before the chunks are added.
indexDocumentEagerRecord(st, kx, disk, docs, s3Doc, obj, fetchOk, embedOk) ==
    LET chunks == splitDocument(obj.content)
        added == addDocuments(st, kx, disk,
                              documentsToIndex(s3Doc, chunks), embedOk)
    IN IF ~obj.present \/ ~fetchOk \/ obj.content = ""
       THEN [store |-> st, keyIndex |-> kx, disk |-> disk,
             documents |-> docs, threw |-> TRUE]
       ELSE [store |-> added.store, keyIndex |-> added.keyIndex,
             disk |-> added.disk,
             documents |-> PutDoc(docs, SyncRecordOf(s3Doc, chunks)),
             threw |-> added.threw]

\* indexDocument(s3Doc): obj is the object the bucket holds under the key
\* when loadDocument runs.
indexDocument(st, kx, disk, docs, s3Doc, obj, fetchOk, embedOk) ==
    LET chunks == splitDocument(obj.content)
        added == addDocuments(st, kx, disk,
                              documentsToIndex(s3Doc, chunks), embedOk)
    IN IF ~obj.present \/ ~fetchOk \/ obj.content = ""
       THEN [store |-> st, keyIndex |-> kx, disk |-> disk,
             documents |-> docs, threw |-> TRUE]
       ELSE IF added.threw
       THEN [store |-> added.store, keyIndex |-> added.keyIndex,
             disk |-> added.disk, documents |-> docs, threw |-> TRUE]
       ELSE [store |-> added.store, keyIndex |-> added.keyIndex,
             disk |-> added.disk,
             documents |-> PutDoc(docs, SyncRecordOf(s3Doc, chunks)),
             threw |-> FALSE]

Callers == {"refresh_index", "periodic"}

Modes == {"full", "incremental"}

NoMetrics ==
    [documentsScanned |-> 0, documentsAdded |-> 0, documentsModified |-> 0,
     documentsDeleted |-> 0, documentsUnchanged |-> 0, errors |-> <<>>]

Item(op, doc) ==
    [op |-> op, key |-> doc.key, etag |-> doc.etag,
     lastModified |-> doc.lastModified]

DeleteItem(key) ==
    [op |-> "delete", key |-> key, etag |-> "etag1", lastModified |-> "t1"]

\* A variant that indexes the new documents before it removes anything.
WorkListNewFirst(changes) ==
    [i \in 1..Len(changes.new) |-> Item("add", changes.new[i])]
    \o [i \in 1..Len(changes.modified) |-> Item("modify", changes.modified[i])]
    \o [i \in 1..Len(changes.deleted) |-> DeleteItem(changes.deleted[i])]

\* The order in which an incremental run works through the changes.
WorkList(changes) ==
    [i \in 1..Len(changes.deleted) |-> DeleteItem(changes.deleted[i])]
    \o [i \in 1..Len(changes.modified) |-> Item("modify", changes.modified[i])]
    \o [i \in 1..Len(changes.new) |-> Item("add", changes.new[i])]

\* One iteration of a loop of performSync: the try block around one
\* document, with the outcome of the remote and embedding calls it makes.
processItem(st, kx, disk, docs, item, obj, fetchOk, embedOk, rebuildOk) ==
    LET gone == removeByKey(st, kx, disk, item.key, rebuildOk)
        afterRemove == [store |-> gone.store, keyIndex |-> gone.keyIndex,
                        disk |-> gone.disk, documents |-> docs,
                        threw |-> gone.threw]
    IN CASE item.op = "delete" ->
              IF gone.threw THEN afterRemove
              ELSE [afterRemove EXCEPT !.documents = DeleteDoc(docs, item.key)]
         [] item.op = "modify" ->
              IF gone.threw THEN afterRemove
              ELSE indexDocument(gone.store, gone.keyIndex, gone.disk, docs,
                                 item, obj, fetchOk, embedOk)
         [] item.op = "add" ->
              indexDocument(st, kx, disk, docs, item, obj, fetchOk, embedOk)

\* A variant that counts every processed document as added.
CountedAdded(m, item) == [m EXCEPT !.documentsAdded = @ + 1]

Counted(m, item) ==
    CASE item.op = "delete" ->
              [m EXCEPT !.documentsDeleted = @ + 1]
      [] item.op = "modify" ->
              [m EXCEPT !.documentsModified = @ + 1]
      [] item.op = "add" ->
              [m EXCEPT !.documentsAdded = @ + 1]

\* A variant that counts the document as added before its error is
\* recorded.
FailedCounted(m, key) ==
    [m EXCEPT !.errors = Append(@, key), !.documentsAdded = @ + 1]

Failed(m, key) == [m EXCEPT !.errors = Append(@, key)]

\* What can go wrong while one document is processed; the first call that
\* fails ends the processing of that document.
Faults == {"none", "fetch", "embed", "rebuild"}

\* A variant in which the first failing document ends the loops.
RECURSIVE runItemsAbort(_, _, _, _)
runItemsAbort(S, items, bucket, fault) ==
    IF items = <<>> THEN S
    ELSE LET item == Head(items)
             r == processItem(S.store, S.keyIndex, S.disk, S.documents, item,
                              bucket[item.key], fault[item.key] # "fetch",
                              fault[item.key] # "embed",
                              fault[item.key] # "rebuild")
             T == [S EXCEPT !.store = r.store, !.keyIndex = r.keyIndex,
                            !.disk = r.disk, !.documents = r.documents,
                            !.metrics = IF r.threw THEN Failed(@, item.key)
                                        ELSE Counted(@, item)]
         IN IF r.threw THEN T
            ELSE runItemsAbort(T, Tail(items), bucket, fault)

\* A variant that writes the sync state file after every document.
RECURSIVE runItemsSaving(_, _, _, _)
runItemsSaving(S, items, bucket, fault) ==
    IF items = <<>> THEN S
    ELSE LET item == Head(items)
             r == processItem(S.store, S.keyIndex, S.disk, S.documents, item,
                              bucket[item.key], fault[item.key] # "fetch",
                              fault[item.key] # "embed",
                              fault[item.key] # "rebuild")
         IN runItemsSaving([S EXCEPT !.store = r.store,
                                     !.keyIndex = r.keyIndex,
                                     !.disk = r.disk,
                                     !.documents = r.documents,
                                     !.diskSync = r.documents,
                                     !.metrics = IF r.threw
                                                 THEN Failed(@, item.key)
                                                 ELSE Counted(@, item)],
                           Tail(items), bucket, fault)

\* The loops of performSync over the work list; fault[key] is the call that
\* fails while the document under that key is processed.
RECURSIVE runItems(_, _, _, _)
runItems(S, items, bucket, fault) ==
    IF items = <<>> THEN S
    ELSE LET item == Head(items)
             r == processItem(S.store, S.keyIndex, S.disk, S.documents, item,
                              bucket[item.key], fault[item.key] # "fetch",
                              fault[item.key] # "embed",
                              fault[item.key] # "rebuild")
         IN runItems([S EXCEPT !.store = r.store, !.keyIndex = r.keyIndex,
                               !.disk = r.disk, !.documents = r.documents,
                               !.metrics = IF r.threw THEN Failed(@, item.key)
                                           ELSE Counted(@, item)],
                     Tail(items), bucket, fault)

\* What a run does once the listing has arrived, up to its first document.
afterListing(S, m, s3Documents) ==
    LET changes == detectChanges(S.documents, s3Documents)
        cleared == clearAll(S.store, S.keyIndex, S.disk)
    IN IF m = "full"
       THEN [S EXCEPT !.store = cleared.store, !.keyIndex = cleared.keyIndex,
                      !.disk = cleared.disk, !.documents = <<>>,
                      !.queue = [i \in 1..Len(s3Documents) |->
                                    Item("add", s3Documents[i])],
                      !.metrics.documentsScanned = Len(s3Documents)]
       ELSE [S EXCEPT !.queue = WorkList(changes),
                      !.metrics.documentsScanned = Len(s3Documents),
                      !.metrics.documentsUnchanged = Len(changes.unchanged)]

\* The end of a run: saveSyncState(), then vectorStore.save().
afterItems(S) ==
    [S EXCEPT !.diskSync = S.documents, !.disk = save(S.store, S.disk),
              !.queue = <<>>]

\* saveSyncState(): the file is written, or the write fails and the
\* failure is logged.
saveSyncState(docs, file, writeOk) == IF writeOk THEN docs ELSE file

\* A variant that answers a failed write by reporting every document of
\* the run as failed.
persistRunBlaming(S, syncOk, saveOk) ==
    [S EXCEPT !.diskSync = saveSyncState(S.documents, S.diskSync, syncOk),
              !.disk = IF saveOk THEN save(S.store, S.disk) ELSE S.disk,
              !.queue = <<>>,
              !.metrics = IF syncOk /\ saveOk THEN @
                          ELSE [@ EXCEPT !.documentsAdded = 0,
                                         !.documentsModified = 0,
                                         !.documentsDeleted = 0,
                                         !.errors =
                                            @ \o [i \in 1..Len(S.documents) |->
                                                     S.documents[i].key]]]

\* The end of a run when writing may fail: saveSyncState() and
\* vectorStore.save() both catch their failure and return.
persistRun(S, syncOk, saveOk) ==
    [S EXCEPT !.diskSync = saveSyncState(S.documents, S.diskSync, syncOk),
              !.disk = IF saveOk THEN save(S.store, S.disk) ELSE S.disk,
              !.queue = <<>>]

\* A variant whose full mode clears the index and SyncState before the
\* listing is requested.
performSyncClearFirst(S, m, bucket, listOk, fault) ==
    LET cleared == clearAll(S.store, S.keyIndex, S.disk)
        S0 == IF m = "full"
              THEN [S EXCEPT !.metrics = NoMetrics, !.queue = <<>>,
                             !.store = cleared.store,
                             !.keyIndex = cleared.keyIndex,
                             !.documents = <<>>]
              ELSE [S EXCEPT !.metrics = NoMetrics, !.queue = <<>>]
        S1 == afterListing(S0, m, listMarkdownFiles(bucket))
    IN IF ~listOk THEN [S0 EXCEPT !.metrics = Failed(@, "sync")]
       ELSE afterItems(runItems(S1, S1.queue, bucket, fault))

\* performSync(mode) from entry to return, run without interruption.
performSync(S, m, bucket, listOk, fault) ==
    LET S0 == [S EXCEPT !.metrics = NoMetrics, !.queue = <<>>]
        S1 == afterListing(S0, m, listMarkdownFiles(bucket))
    IN IF ~listOk THEN [S0 EXCEPT !.metrics = Failed(@, "sync")]
       ELSE afterItems(runItems(S1, S1.queue, bucket, fault))

\* refresh_index before its first call.
NoReply ==
    [success |-> TRUE, documents_scanned |-> 0, documents_added |-> 0,
     documents_modified |-> 0, documents_deleted |-> 0,
     documents_unchanged |-> 0, errors_count |-> 0]

\* A variant that reports zero counters whenever the run had errors.
refreshIndexDropCounters(settled) ==
    IF settled = <<>> \/ settled[1].errors # <<>>
    THEN [NoReply EXCEPT !.success = FALSE,
                         !.errors_count =
                             IF settled = <<>> THEN 1
                             ELSE Len(settled[1].errors)]
    ELSE [NoReply EXCEPT !.documents_scanned = settled[1].documentsScanned,
                         !.documents_added = settled[1].documentsAdded,
                         !.documents_modified = settled[1].documentsModified,
                         !.documents_deleted = settled[1].documentsDeleted,
                         !.documents_unchanged =
                             settled[1].documentsUnchanged]

\* refreshIndex, from the settling of performSync on: <<metrics>> when it
\* resolves, <<>> when it rejects (the catch branch).
refreshIndex(settled) ==
    IF settled = <<>>
    THEN [NoReply EXCEPT !.success = FALSE, !.errors_count = 1]
    ELSE LET m == settled[1]
             hasErrors == Len(m.errors) > 0
         IN [success |-> ~hasErrors,
             documents_scanned |-> m.documentsScanned,
             documents_added |-> m.documentsAdded,
             documents_modified |-> m.documentsModified,
             documents_deleted |-> m.documentsDeleted,
             documents_unchanged |-> m.documentsUnchanged,
             errors_count |-> Len(m.errors)]

\* What the GetObject request of a download settles to: a body with
\* text, an empty body, no body, or an error of the S3 client.
Sent == {"text", "empty", "noBody", "NoSuchKey", "TimeoutError",
         "AccessDenied"}

\* String(error) of an error of the S3 client, as the words of the text.
ErrorText(sent) ==
    CASE sent = "NoSuchKey" ->
             <<"NoSuchKey", ": The specified key does not exist.">>
      [] sent = "TimeoutError" -> <<"TimeoutError", ": socket hang up">>
      [] sent = "AccessDenied" -> <<"AccessDenied", ": Access Denied">>

\* The keys get_full_document is asked for, and the words of each.
GetKeys == {"a.md", "404.md", "NotFound.md"}

Words(key) ==
    CASE key = "404.md" -> <<"404", ".md">>
      [] key = "NotFound.md" -> <<"NotFound", ".md">>
      [] OTHER -> <<key>>

\* message.includes(word)
Includes(message, word) == word \in Range(message)

\* getFileContent(key): the content, or the error it throws, whose message
\* is 'Unable to download <key>: <error>'.
getFileContent(key, sent) ==
    CASE sent = "text" -> [threw |-> FALSE, content |-> "P1"]
      [] sent = "empty" -> [threw |-> FALSE, content |-> ""]
      [] sent = "noBody" ->
             [threw |-> TRUE,
              message |-> <<"Unable to download ">> \o Words(key) \o
                          <<": ", "Error", ": ", "No content for ">> \o
                          Words(key)]
      [] OTHER ->
             [threw |-> TRUE,
              message |-> <<"Unable to download ">> \o Words(key) \o
                          <<": ">> \o ErrorText(sent)]

\* getFullDocument(input): the kind of what the caller receives. "stale"
\* is the error 'was found in the index ... but is no longer available in
\* S3', "notFound" the error 'not found in S3', "generic" the error
\* 'Error fetching document: ...'.
getFullDocument(key, docs, sent, metaOk) ==
    LET got == getFileContent(key, sent)
        message ==
            IF got.threw THEN got.message
            ELSE IF got.content = ""
            THEN <<"Document \"">> \o Words(key) \o <<"\" has no content">>
            ELSE IF ~metaOk
            THEN <<"Unable to retrieve metadata for \"">> \o Words(key) \o
                 <<"\"">>
            ELSE <<>>
    IN IF message = <<>> THEN "returned"
       ELSE IF \/ Includes(message, "NoSuchKey")
               \/ Includes(message, "404")
               \/ Includes(message, "NotFound")
       THEN IF HasKey(docs, key) THEN "stale" ELSE "notFound"
       ELSE "generic"

NoGet == [key |-> "a.md", documents |-> <<>>, sent |-> "text",
          metaOk |-> TRUE, result |-> "none"]

\* ------------------------------------------------------------------------
\* authMiddleware
\* ------------------------------------------------------------------------
\* A string is the sequence of its pieces; " " is white space.
DropLeading(str) ==
    LET first == {i \in 1..Len(str) : str[i] # " "}
    IN IF first = {} THEN <<>>
       ELSE SubSeq(str, CHOOSE i \in first : \A j \in first : i <= j,
                   Len(str))

DropTrailing(str) ==
    LET last == {i \in 1..Len(str) : str[i] # " "}
    IN IF last = {} THEN <<>>
       ELSE SubSeq(str, 1, CHOOSE i \in last : \A j \in last : j <= i)

\* String.prototype.trim
Trim(str) == DropTrailing(DropLeading(str))

\* The pieces that /bearer/i matches.
IsBearer(piece) == piece \in {"Bearer", "bearer", "BEARER"}

\* trimmedHeader.match(/^bearer\s+(.+)$/i): <<the group>>, or <<>> when
\* the header does not match.
BearerMatch(trimmedHeader) ==
    IF /\ Len(trimmedHeader) >= 3
       /\ IsBearer(trimmedHeader[1])
       /\ trimmedHeader[2] = " "
    THEN <<DropLeading(Tail(trimmedHeader))>>
    ELSE <<>>

\* A header or query value: undefined, a string, or (query only) an array.
Undefined == [kind |-> "undefined", value |-> <<>>]

String(str) == [kind |-> "string", value |-> str]

\* A variant that looks at the query parameter before the header.
extractApiKeyQueryFirst(authHeader, queryApiKey) ==
    IF queryApiKey.kind = "string" /\ queryApiKey.value # <<>>
    THEN [key |-> Trim(queryApiKey.value), malformed |-> FALSE]
    ELSE IF authHeader.kind = "string" /\ Trim(authHeader.value) # <<>>
    THEN IF BearerMatch(Trim(authHeader.value)) # <<>>
         THEN [key |-> Trim(BearerMatch(Trim(authHeader.value))[1]),
               malformed |-> FALSE]
         ELSE [key |-> <<>>, malformed |-> TRUE]
    ELSE [key |-> <<>>, malformed |-> FALSE]

\* extractApiKey(req): key <<>> stands for null.
extractApiKey(authHeader, queryApiKey) ==
    IF authHeader.kind = "string" /\ authHeader.value # <<>>
       /\ Trim(authHeader.value) # <<>>
    THEN LET bearerMatch == BearerMatch(Trim(authHeader.value))
         IN IF bearerMatch # <<>>
            THEN [key |-> Trim(bearerMatch[1]),
                  malformed |-> Trim(bearerMatch[1]) = <<>>]
            ELSE [key |-> <<>>, malformed |-> TRUE]
    ELSE IF queryApiKey.kind = "string" /\ queryApiKey.value # <<>>
    THEN [key |-> Trim(queryApiKey.value), malformed |-> FALSE]
    ELSE [key |-> <<>>, malformed |-> FALSE]

Passed == [next |-> TRUE, status |-> 0, message |-> ""]

Rejected(message) == [next |-> FALSE, status |-> 401, message |-> message]

\* authMiddleware(req, res, next)
authMiddleware(enabled, apiKey, path, authHeader, queryApiKey) ==
    LET got == extractApiKey(authHeader, queryApiKey)
    IN IF ~enabled THEN Passed
       ELSE IF path = "/health" THEN Passed
       ELSE IF got.key = <<>>
       THEN IF got.malformed THEN Rejected("Invalid API key")
            ELSE Rejected("API key required")
       ELSE IF got.key # apiKey THEN Rejected("Invalid API key")
       ELSE Passed

NoRequest ==
    [enabled |-> FALSE, apiKey |-> <<>>, path |-> "/mcp",
     header |-> Undefined, query |-> Undefined, settled |-> FALSE,
     outcome |-> Passed]

\* ------------------------------------------------------------------------
\* Actions
\* ------------------------------------------------------------------------

\* Once the bucket changes, the metrics a caller got back describe a
\* bucket that is gone: the caller is idle again.
Forgotten ==
    /\ pc' = [c \in Callers |-> IF pc[c] = "done" THEN "idle" ELSE pc[c]]
    /\ metrics' = [c \in Callers |->
                      IF pc[c] = "done" THEN NoMetrics ELSE metrics[c]]
    /\ mode' = [c \in Callers |->
                   IF pc[c] = "done" THEN "incremental" ELSE mode[c]]
    /\ prevRun' = [c \in Callers |->
                      IF pc[c] = "done" THEN "none" ELSE prevRun[c]]
    /\ reply' = IF pc["refresh_index"] = "done" THEN NoReply ELSE reply

\* An object is written to the bucket.
RemotePut(k) ==
    /\ \E o \in ObjectsOf(k) :
          /\ o # remote[k]
          /\ remote' = [remote EXCEPT ![k] = o]
    /\ Forgotten
    /\ UNCHANGED <<syncVars, ixVars, queue, restarts, lastCall, dcVars, trail, obsVars>>

\* An object is deleted from the bucket.
RemoteDelete(k) ==
    /\ remote[k].present
    /\ remote' = [remote EXCEPT ![k] = Absent]
    /\ Forgotten
    /\ UNCHANGED <<syncVars, ixVars, queue, restarts, lastCall, dcVars, trail, obsVars>>

\* A variant in which a full run clears the index and SyncState before it
\* asks for the listing.
StartSyncClearing(c, m) ==
    /\ pc[c] \in {"idle", "done"}
    /\ pc' = [pc EXCEPT ![c] = "listing"]
    /\ mode' = [mode EXCEPT ![c] = m]
    /\ queue' = [queue EXCEPT ![c] = <<>>]
    /\ metrics' = [metrics EXCEPT ![c] = NoMetrics]
    /\ prevRun' = [prevRun EXCEPT ![c] = "none"]
    /\ store' = IF m = "full" THEN <<>> ELSE store
    /\ keyIndex' = IF m = "full" THEN NoIndex ELSE keyIndex
    /\ documents' = IF m = "full" THEN <<>> ELSE documents
    /\ UNCHANGED <<remote, diskSync, diskStore, restarts, lastCall, dcVars,
                   trail, obsVars, reply>>

\* performSync(mode) is entered: the metrics are reset and the listing is
\* requested. Nothing in the code looks at runs already in flight.
StartSync(c, m) ==
    /\ pc[c] \in {"idle", "done"}
    /\ pc' = [pc EXCEPT ![c] = "listing"]
    /\ mode' = [mode EXCEPT ![c] = m]
    /\ queue' = [queue EXCEPT ![c] = <<>>]
    /\ metrics' = [metrics EXCEPT ![c] = NoMetrics]
    /\ prevRun' = [prevRun EXCEPT ![c] =
          IF pc[c] = "done" /\ mode[c] = "incremental"
          THEN IF metrics[c].errors = <<>> THEN "clean" ELSE "errors"
          ELSE IF pc[c] = "idle" /\ prevRun[c] = "crashed" THEN "crashed"
          ELSE "none"]
    /\ UNCHANGED <<remote, syncVars, ixVars, restarts, lastCall, dcVars, trail, obsVars, reply>>

\* listMarkdownFiles fails: the outer catch records one error.
ListFails(c) ==
    /\ pc[c] = "listing"
    /\ metrics' = [metrics EXCEPT ![c] = Failed(@, "sync")]
    /\ pc' = [pc EXCEPT ![c] = "done"]
    /\ UNCHANGED <<remote, syncVars, ixVars, mode, queue, prevRun, restarts,
                   lastCall, dcVars, trail, obsVars, reply>>

\* The state a run reads and writes, as one record.
Now(c) ==
    [store |-> store, keyIndex |-> keyIndex, disk |-> diskStore,
     documents |-> documents, diskSync |-> diskSync, queue |-> queue[c],
     metrics |-> metrics[c]]

Becomes(c, S) ==
    /\ store' = S.store
    /\ keyIndex' = S.keyIndex
    /\ diskStore' = S.disk
    /\ documents' = S.documents
    /\ diskSync' = S.diskSync
    /\ queue' = [queue EXCEPT ![c] = S.queue]
    /\ metrics' = [metrics EXCEPT ![c] = S.metrics]

Fits(S) == Cardinality(UsedIds(S.store, S.keyIndex)) <= MaxIds

\* The listing arrives; a full run clears the index and the sync state, an
\* incremental run classifies the listing.
Listed(c) ==
    /\ pc[c] = "listing"
    /\ Becomes(c, afterListing(Now(c), mode[c], listMarkdownFiles(remote)))
    /\ pc' = [pc EXCEPT ![c] = "processing"]
    /\ UNCHANGED <<remote, mode, prevRun, restarts, lastCall, dcVars, trail, obsVars, reply>>

\* A variant in which a document whose processing failed stays at the head
\* of the work list and is processed again.
ProcessNextRetrying(c) ==
    /\ pc[c] = "processing"
    /\ queue[c] # <<>>
    /\ \E f \in Faults :
          LET one == <<Head(queue[c])>>
              fault == [k \in Keys |-> f]
              S == runItems(Now(c), one, remote, fault)
          IN /\ Fits(S)
             /\ Becomes(c, [S EXCEPT !.queue = IF f = "none"
                                               THEN Tail(queue[c])
                                               ELSE queue[c],
                                     !.metrics = IF f = "none"
                                                 THEN S.metrics
                                                 ELSE metrics[c]])
    /\ UNCHANGED <<remote, pc, mode, prevRun, restarts, lastCall, dcVars, trail, obsVars, reply>>

\* The next document of the run is processed.
ProcessNext(c) ==
    /\ pc[c] = "processing"
    /\ queue[c] # <<>>
    /\ \E f \in Faults :
          LET one == <<Head(queue[c])>>
              fault == [k \in Keys |-> f]
              S == runItems(Now(c), one, remote, fault)
          IN /\ Fits(S)
             /\ Becomes(c, [S EXCEPT !.queue = Tail(queue[c])])
    /\ UNCHANGED <<remote, pc, mode, prevRun, restarts, lastCall, dcVars, trail, obsVars, reply>>

\* All documents are processed: saveSyncState, then vectorStore.save, and
\* the metrics are returned.
Finish(c) ==
    /\ pc[c] = "processing"
    /\ queue[c] = <<>>
    /\ Becomes(c, afterItems(Now(c)))
    /\ pc' = [pc EXCEPT ![c] = "done"]
    /\ UNCHANGED <<remote, mode, prevRun, restarts, lastCall, dcVars, trail, obsVars, reply>>

\* The run of caller c in mode m has the document under key k to process.
Worked(c, m, k) ==
    \E item \in Range(afterListing(Now(c), m, listMarkdownFiles(remote)).queue) :
        item.key = k

\* One caller runs performSync(m) to its return while nothing else runs.
Synced(c, m) ==
    /\ \A d \in Callers : pc[d] \in {"idle", "done"}
    /\ \E listOk \in BOOLEAN, fault \in [Keys -> Faults] :
          LET S == performSync(Now(c), m, remote, listOk, fault)
          IN /\ \A k \in Keys : fault[k] # "none" => listOk /\ Worked(c, m, k)
             /\ Fits(S)
             /\ Becomes(c, S)
    /\ pc' = [pc EXCEPT ![c] = "done"]
    /\ mode' = [mode EXCEPT ![c] = m]
    /\ prevRun' = [prevRun EXCEPT ![c] =
          IF pc[c] = "done" /\ mode[c] = "incremental"
          THEN IF metrics[c].errors = <<>> THEN "clean" ELSE "errors"
          ELSE IF pc[c] = "idle" /\ prevRun[c] = "crashed" THEN "crashed"
          ELSE "none"]
    /\ UNCHANGED <<remote, restarts, lastCall, dcVars, obsVars>>

\* performSync(m) called by c; the refresh_index tool builds its reply
\* from the metrics returned.
PerformSync(c, m) ==
    /\ Synced(c, m)
    /\ reply' = IF c = "refresh_index" THEN refreshIndex(<<metrics'[c]>>)
                ELSE reply
    /\ UNCHANGED trail

\* The process stops at any point and the server is started again:
\* new SyncService (loadSyncState) and vectorStore.initialize().
Restart ==
    /\ restarts < MaxRestarts
    /\ restarts' = restarts + 1
    /\ \E readOk \in (IF diskSync = <<>> THEN {TRUE} ELSE BOOLEAN),
          fail \in (IF diskStore = <<>> THEN {<<>>}
                    ELSE InitFaults(diskStore)) :
          /\ documents' = loadSyncState(diskSync, readOk)
          /\ store' = initialize(diskStore, fail).store
          /\ keyIndex' = initialize(diskStore, fail).keyIndex
          /\ boot' = [index |-> IF diskStore = <<>> THEN "absent"
                                ELSE IF fail = <<>> THEN "loaded"
                                ELSE "failed",
                      syncState |-> IF diskSync = <<>> THEN "empty"
                                    ELSE IF readOk THEN "read"
                                    ELSE "failed"]
    /\ pc' = [c \in Callers |-> "idle"]
    /\ mode' = [c \in Callers |-> "incremental"]
    /\ queue' = [c \in Callers |-> <<>>]
    /\ metrics' = [c \in Callers |-> NoMetrics]
    /\ prevRun' = [c \in Callers |->
                      IF pc[c] \in {"idle", "done"} THEN "none"
                      ELSE "crashed"]
    /\ reply' = NoReply
    /\ UNCHANGED <<remote, diskSync, diskStore, lastCall, dcVars, trail,
                   rebuild, search, ssVars, gfd, auth, calm>>

\* ------------------------------------------------------------------------
\* Specifications
\* ------------------------------------------------------------------------

\* The server has not been started again.
NoBoot == [index |-> "none", syncState |-> "none"]

NoCall ==
    [op |-> "none", key |-> "a.md", threw |-> FALSE, count |-> 0, had |-> 0,
     prev |-> [op |-> "none", key |-> "a.md", threw |-> FALSE, count |-> 0,
               had |-> 0]]

\* No search has run yet.
NoSearch == [during |-> "never", found |-> 0]

InitServer ==
    /\ documents = <<>>
    /\ diskSync = <<>>
    /\ store = <<>>
    /\ keyIndex = NoIndex
    /\ diskStore = <<>>
    /\ pc = [c \in Callers |-> "idle"]
    /\ mode = [c \in Callers |-> "incremental"]
    /\ queue = [c \in Callers |-> <<>>]
    /\ metrics = [c \in Callers |-> NoMetrics]
    /\ prevRun = [c \in Callers |-> "none"]
    /\ restarts = 0
    /\ lastCall = NoCall
    /\ trail = <<>>
    /\ rebuild = [c \in Callers |-> <<>>]
    /\ search = NoSearch
    /\ reply = NoReply
    /\ boot = NoBoot

InitRankIdle ==
    /\ auth = NoRequest
    /\ calm = FALSE
    /\ gfd = NoGet
    /\ ssK = <<>>
    /\ ssNeighbours = <<>>
    /\ ssResults = <<>>

InitDetectIdle ==
    /\ dcDocuments = <<>>
    /\ dcListing = <<>>
    /\ dcChanges = <<>>

Init ==
    /\ remote = [k \in Keys |-> Absent]
    /\ InitServer
    /\ InitRankIdle
    /\ InitDetectIdle

Next ==
    \/ \E k \in Keys : RemotePut(k)
    \/ \E k \in Keys : RemoteDelete(k)
    \/ \E m \in Modes : PerformSync("refresh_index", m)

Spec == Init /\ [][Next]_vars

SpecRestart == Init /\ [][Next \/ Restart]_vars

\* ------------------------------------------------------------------------
\* SpecDetect: detectChanges on every bounded SyncState and listing
\* ------------------------------------------------------------------------

\* SyncState.documents as indexDocument leaves it: one record per key, in
\* any insertion order.
TrackedRecords ==
    [key : Keys, etag : Etags, lastModified : Times, chunkCount : {1},
     status : {"indexed"}]

SyncStates ==
    UNION {{s \in [1..Cardinality(ks) -> TrackedRecords] :
               {s[i].key : i \in 1..Len(s)} = ks} : ks \in SUBSET Keys}

\* Listings as listMarkdownFiles returns them: distinct keys, ascending.
Listings ==
    {listing \in
        UNION {[1..n -> [key : Keys, etag : Etags, lastModified : Times,
                         size : Sizes]] : n \in 0..Len(KeySeq)} :
        \E ks \in SUBSET Keys :
            LET In(k) == k \in ks
            IN [i \in 1..Len(listing) |-> listing[i].key] = SelectSeq(KeySeq, In)}

InitDetect ==
    /\ remote = [k \in Keys |-> Absent]
    /\ InitServer
    /\ InitRankIdle
    /\ dcDocuments \in SyncStates
    /\ dcListing \in Listings
    /\ dcChanges = <<>>

\* detectChanges(s3Documents) is called and returns.
Detect ==
    /\ dcChanges = <<>>
    /\ dcChanges' = <<detectChanges(dcDocuments, dcListing)>>
    /\ UNCHANGED <<remote, syncVars, ixVars, runVars, restarts, lastCall,
                   trail, obsVars, reply, dcDocuments, dcListing>>

NextDetect == Detect

SpecDetect == InitDetect /\ [][NextDetect]_vars

KeysOf(docs) == [i \in 1..Len(docs) |-> docs[i].key]

Count(keys, k) == Cardinality({i \in 1..Len(keys) : keys[i] = k})

\* C1: for every SyncState and every listing with distinct keys, each remote
\* key is in exactly one of new, modified, unchanged; each tracked key is in
\* exactly one of modified, unchanged, deleted; no key is classified twice
\* and none is left out.
DetectPartitions ==
    dcChanges # <<>> =>
        LET ch == dcChanges[1]
            new == KeysOf(ch.new)
            modified == KeysOf(ch.modified)
            unchanged == KeysOf(ch.unchanged)
            deleted == ch.deleted
        IN \A k \in Keys :
              /\ k \in Range(KeysOf(dcListing)) =>
                    Count(new, k) + Count(modified, k) + Count(unchanged, k) = 1
              /\ HasKey(dcDocuments, k) =>
                    Count(modified, k) + Count(unchanged, k)
                       + Count(deleted, k) = 1
              /\ Count(new, k) + Count(modified, k) + Count(unchanged, k)
                    + Count(deleted, k)
                 = IF k \in Range(KeysOf(dcListing)) \/ HasKey(dcDocuments, k)
                   THEN 1 ELSE 0

\* C1 witness: one call that finds a modified document and a deleted one.
DetectMixedReached ==
    /\ dcChanges # <<>>
    /\ Len(dcChanges[1].modified) = 1
    /\ Len(dcChanges[1].deleted) = 1

\* C2: a remote document is new iff its key is not tracked, modified iff it
\* is tracked with another etag, unchanged iff it is tracked with the same
\* etag, whatever lastModified and size are; deleted is exactly the tracked
\* keys that the listing does not have.
DetectClassifies ==
    dcChanges # <<>> =>
        LET ch == dcChanges[1]
        IN /\ \A i \in 1..Len(dcListing) :
                 LET d == dcListing[i]
                     tracked == HasKey(dcDocuments, d.key)
                 IN /\ d \in Range(ch.new) <=> ~tracked
                    /\ d \in Range(ch.modified) <=>
                          tracked /\ GetDoc(dcDocuments, d.key).etag # d.etag
                    /\ d \in Range(ch.unchanged) <=>
                          tracked /\ GetDoc(dcDocuments, d.key).etag = d.etag
           /\ Range(ch.new) \cup Range(ch.modified) \cup Range(ch.unchanged)
                 \subseteq Range(dcListing)
           /\ Range(ch.deleted) =
                 {k \in Keys : HasKey(dcDocuments, k)
                               /\ k \notin Range(KeysOf(dcListing))}

\* C2 witness: a document whose lastModified moved while its etag stayed is
\* reported unchanged, next to a tracked key that left the listing.
DetectSameEtagReached ==
    /\ dcChanges # <<>>
    /\ \E d \in Range(dcChanges[1].unchanged) :
          GetDoc(dcDocuments, d.key).lastModified # d.lastModified
    /\ dcChanges[1].deleted # <<>>

\* ------------------------------------------------------------------------
\* SpecIndex: direct calls on the vector index
\* ------------------------------------------------------------------------

\* What a direct call leaves behind: the index and the record of the call
\* (count: chunks passed in or removed; had: ids listed under the key when
\* the call was made; prev: the call before it).
Called(r, op, key, count) ==
    /\ store' = r.store
    /\ keyIndex' = r.keyIndex
    /\ diskStore' = r.disk
    /\ lastCall' = [op |-> op, key |-> key, threw |-> r.threw, count |-> count,
                    had |-> Len(keyIndex[key]),
                    prev |-> [op |-> lastCall.op, key |-> lastCall.key,
                              threw |-> lastCall.threw,
                              count |-> lastCall.count, had |-> lastCall.had]]
    /\ UNCHANGED <<remote, syncVars, runVars, restarts, dcVars, trail, obsVars, reply>>

\* addDocuments(docs) with the chunks of one document; the embedding
\* provider answers or fails.
AddDocuments(k) ==
    \E o \in Objects, embedOk \in BOOLEAN :
        LET docs == documentsToIndex([key |-> k, etag |-> o.etag],
                                     splitDocument(o.content))
            r == addDocuments(store, keyIndex, diskStore, docs, embedOk)
        IN /\ Cardinality(UsedIds(r.store, r.keyIndex)) <= MaxIds
           /\ Called(r, "addDocuments", k, Len(docs))

\* removeByKey(s3Key); the embedding provider answers or fails when the
\* kept chunks are embedded again.
RemoveByKey(k) ==
    \E embedOk \in BOOLEAN :
        LET r == removeByKey(store, keyIndex, diskStore, k, embedOk)
        IN Called(r, "removeByKey", k, r.removed)

\* clearAll()
ClearAll ==
    LET r == clearAll(store, keyIndex, diskStore)
    IN Called([store |-> r.store, keyIndex |-> r.keyIndex, disk |-> r.disk,
               threw |-> FALSE], "clearAll", KeySeq[1], 0)

\* save()
Save ==
    Called([store |-> store, keyIndex |-> keyIndex,
            disk |-> save(store, diskStore), threw |-> FALSE],
           "save", KeySeq[1], 0)

NextIndex ==
    \/ \E k \in Keys : AddDocuments(k)
    \/ \E k \in Keys : RemoveByKey(k)
    \/ ClearAll
    \/ Save

SpecIndex == Init /\ [][NextIndex]_vars

\* The ids of the stored chunks that carry the key.
StoredIds(st, k) == {st[i].id : i \in {j \in 1..Len(st) : st[j].key = k}}

\* The stored chunks that carry another key, in order.
OtherChunks(st, k) == LET Other(c) == c.key # k IN SelectSeq(st, Other)

\* C4: in every reachable state of the index, after any calls of
\* addDocuments, removeByKey and clearAll, failed ones included, the ids
\* under KeyIndex[key] are exactly the ids of the stored chunks of that key.
KeyIndexMatchesStore ==
    \A k \in Keys : Range(keyIndex[k]) = StoredIds(store, k)

\* C9: a call of addDocuments that fails because the embedding provider
\* fails leaves the store, KeyIndex, and what getStats and hasDocument
\* report as they were before the call.
AddDocumentsAllOrNothing ==
    [][(lastCall'.op = "addDocuments" /\ lastCall'.threw) =>
          /\ store' = store
          /\ keyIndex' = keyIndex
          /\ totalChunks(keyIndex') = totalChunks(keyIndex)
          /\ getUniqueFileCount(keyIndex') = getUniqueFileCount(keyIndex)
          /\ \A k \in Keys :
                hasDocument(keyIndex', k) = hasDocument(keyIndex, k)]_vars

\* A step in which removeByKey(K) returns right after addDocuments for K
\* returned.
RoundTripStep(k) ==
    /\ lastCall.op = "addDocuments" /\ lastCall.key = k /\ ~lastCall.threw
    /\ lastCall'.op = "removeByKey" /\ lastCall'.key = k /\ ~lastCall'.threw

\* What the round trip promises: K is gone from KeyIndex, the total chunk
\* count went down by the number of chunks added, the chunks of the other
\* keys are where they were.
RoundTripUndone(k) ==
    /\ ~hasDocument(keyIndex', k)
    /\ totalChunks(keyIndex) - totalChunks(keyIndex') = lastCall.count
    /\ OtherChunks(store', k) = OtherChunks(store, k)
    /\ \A j \in Keys \ {k} : keyIndex'[j] = keyIndex[j]

Caller == "refresh_index"

\* performSync has just returned to the caller, in mode m, without errors.
ReturnedClean(m) ==
    /\ pc[Caller] = "done"
    /\ mode[Caller] = m
    /\ metrics[Caller].errors = <<>>

\* C3: after any performSync run that returns an empty errors list, from
\* any reachable state (earlier runs with failed documents included), the
\* keys of SyncState.documents are the keys of KeyIndex and each record's
\* chunkCount is the number of ids under its key.
SyncStateMatchesKeyIndex ==
    (\E m \in Modes : ReturnedClean(m)) =>
        \A k \in Keys :
            /\ HasKey(documents, k) <=> hasDocument(keyIndex, k)
            /\ HasKey(documents, k) =>
                  GetDoc(documents, k).chunkCount = Len(keyIndex[k])

\* The remote documents whose content is not empty.
NonEmptyRemote == {k \in Keys : remote[k].present /\ remote[k].content # ""}

\* C7: after performSync('full') returns with zero errors, KeyIndex has as
\* many keys as there are remote documents with non-empty content, whatever
\* the index and SyncState held before the run.
FullSyncComplete ==
    ReturnedClean("full") =>
        getUniqueFileCount(keyIndex) = Cardinality(NonEmptyRemote)

\* An incremental run has returned that follows another incremental run,
\* the bucket unchanged in between, and reports nothing added, modified or
\* deleted.
SecondRunIdle ==
    /\ metrics[Caller].documentsAdded = 0
    /\ metrics[Caller].documentsModified = 0
    /\ metrics[Caller].documentsDeleted = 0

Seen(bucket) ==
    LET listing == listMarkdownFiles(bucket)
    IN [i \in 1..Len(listing) |-> <<listing[i].key, listing[i].etag>>]

\* performSync('incremental') runs to its return; the listing it saw and
\* the metrics it returned are noted.
ScenarioSync ==
    /\ Len(trail) < MaxRuns
    /\ Synced(Caller, "incremental")
    /\ trail' = Append(trail, [seen |-> Seen(remote),
                               metrics |-> metrics'[Caller]])
    /\ reply' = refreshIndex(<<metrics'[Caller]>>)

\* The bucket of the scenario holds one key.
NextScenario ==
    \/ RemotePut(KeySeq[1])
    \/ RemoteDelete(KeySeq[1])
    \/ ScenarioSync

SpecScenario == Init /\ [][NextScenario]_vars

\* Three runs have returned without errors: the first saw {a.md: etag1},
\* the second {a.md: etag2}, the third an empty bucket.
ScenarioRan ==
    /\ Len(trail) >= 3
    /\ trail[1].seen = <<<<"a.md", "etag1">>>>
    /\ trail[2].seen = <<<<"a.md", "etag2">>>>
    /\ trail[3].seen = <<>>
    /\ \A i \in 1..3 : trail[i].metrics.errors = <<>>

InitConc ==
    /\ remote \in [Keys -> Objects \cup {Absent}]
    /\ \A k \in Keys : remote[k] \in ObjectsOf(k) \cup {Absent}
    /\ remote[KeySeq[2]] = Absent
    /\ InitServer
    /\ InitRankIdle
    /\ InitDetectIdle

\* The tool handler passes the mode it is given, the timer always runs
\* incrementally.
ModesOf(c) == IF c = "periodic" THEN {"incremental"} ELSE Modes

\* One await of performSync resolves for caller c, or c enters performSync.
Run(c) ==
    \/ \E m \in ModesOf(c) : StartSync(c, m)
    \/ ListFails(c)
    \/ Listed(c)
    \/ ProcessNext(c)
    \/ Finish(c)

NextConc == \E c \in Callers : Run(c)

SpecConc == InitConc /\ [][NextConc]_vars

\* The callers that are inside performSync.
InFlight == {c \in Callers : pc[c] \in {"listing", "processing"}}

\* C10: at most one sync run is in flight at any time; a run requested
\* while another executes is rejected or starts after the first finished,
\* so no two runs interleave their changes to the index and SyncState.
OneRunInFlight == Cardinality(InFlight) <= 1

\* ------------------------------------------------------------------------
\* SpecSearch: the search tool is called while the server synchronises
\* ------------------------------------------------------------------------

\* The chunks removeByKey keeps for the document at the head of the queue.
KeptFor(c) ==
    LET Kept(d) == d.id \notin Range(keyIndex[Head(queue[c]).key])
    IN SelectSeq(store, Kept)

\* The next document of the run makes removeByKey rebuild the store.
NeedsRebuild(c) ==
    /\ pc[c] = "processing"
    /\ queue[c] # <<>>
    /\ Head(queue[c]).op \in {"delete", "modify"}
    /\ keyIndex[Head(queue[c]).key] # <<>>
    /\ KeptFor(c) # <<>>

\* removeByKey up to its await: this.store is a new empty HNSWLib, the
\* kept chunks wait to be embedded again.
RebuildBegin(c) ==
    /\ NeedsRebuild(c)
    /\ store' = <<>>
    /\ rebuild' = [rebuild EXCEPT ![c] = KeptFor(c)]
    /\ pc' = [pc EXCEPT ![c] = "rebuilding"]
    /\ UNCHANGED <<remote, syncVars, keyIndex, diskStore, mode, queue,
                   metrics, prevRun, restarts, lastCall, dcVars, trail,
                   search, ssVars, gfd, boot, auth, calm,
                   reply>>

\* The await of removeByKey resolves or rejects, and the rest of the loop
\* iteration runs.
RebuildEnd(c) ==
    /\ pc[c] = "rebuilding"
    /\ \E f \in Faults :
          LET one == <<Head(queue[c])>>
              fault == [k \in Keys |-> f]
              S == runItems([Now(c) EXCEPT !.store = rebuild[c]], one,
                            remote, fault)
          IN /\ Fits(S)
             /\ Becomes(c, [S EXCEPT !.queue = Tail(queue[c])])
    /\ pc' = [pc EXCEPT ![c] = "processing"]
    /\ rebuild' = [rebuild EXCEPT ![c] = <<>>]
    /\ UNCHANGED <<remote, mode, prevRun, restarts, lastCall, dcVars, trail,
                   search, ssVars, gfd, boot, auth, calm,
                   reply>>

\* A loop iteration that rebuilds nothing.
ProcessWhole(c) == ~NeedsRebuild(c) /\ ProcessNext(c)

\* Where the sync run is when the ANN query of a search executes.
Phase ==
    CASE \E c \in Callers : pc[c] = "rebuilding" -> "rebuilding"
      [] \E c \in Callers : pc[c] = "processing" -> "processing"
      [] \E c \in Callers : pc[c] = "listing" -> "listing"
      [] OTHER -> "idle"

\* similaritySearch: the ANN query runs against this.store as it is.
Search ==
    /\ search' = [during |-> Phase, found |-> Len(store)]
    /\ UNCHANGED <<remote, syncVars, ixVars, runVars, restarts, lastCall,
                   dcVars, trail, rebuild, ssVars, gfd, boot, auth, calm,
                   reply>>

\* The bucket of this specification changes between runs and holds
\* documents that split into chunks.
Resting == \A c \in Callers : pc[c] \in {"idle", "done"}

SearchPut(k) ==
    /\ Resting
    /\ RemotePut(k)
    /\ splitDocument(remote'[k].content) # <<>>

SearchDelete(k) == Resting /\ RemoteDelete(k)

NextSearch ==
    \/ \E k \in Keys : SearchPut(k)
    \/ \E k \in Keys : SearchDelete(k)
    \/ \E m \in Modes : StartSync(Caller, m)
    \/ ListFails(Caller)
    \/ Listed(Caller)
    \/ ProcessWhole(Caller)
    \/ RebuildBegin(Caller)
    \/ RebuildEnd(Caller)
    \/ Finish(Caller)
    \/ Search

SpecSearch == Init /\ [][NextSearch]_vars

\* C11: similaritySearch never executes against the index while a sync run
\* is in flight; no search sees the store of a removeByKey rebuild that is
\* empty while the kept chunks wait to be inserted again.
SearchOutsideSync == search.during \in {"never", "idle"}

\* ------------------------------------------------------------------------
\* Spec: failures inside a run
\* ------------------------------------------------------------------------

\* The documents a run in mode m has to process, seen from the state in
\* which it starts.
ItemsOf(m) ==
    afterListing(Now(Caller), m, listMarkdownFiles(remote)).queue

\* How many of the items with operation op are not among the failed keys.
Done(items, op, failedKeys) ==
    Cardinality({i \in 1..Len(items) :
                    items[i].op = op /\ items[i].key \notin failedKeys})

\* What a step that is a whole run leaves: every document of the run is
\* either listed once in errors under its key or counted and applied to
\* SyncState.
EachProcessed(m) ==
    LET items == ItemsOf(m)
        after == metrics'[Caller]
        failedKeys == Range(after.errors)
    IN /\ failedKeys \subseteq {items[i].key : i \in 1..Len(items)}
       /\ Len(after.errors) = Cardinality(failedKeys)
       /\ after.documentsAdded = Done(items, "add", failedKeys)
       /\ after.documentsModified = Done(items, "modify", failedKeys)
       /\ after.documentsDeleted = Done(items, "delete", failedKeys)
       /\ \A i \in 1..Len(items) :
             items[i].key \notin failedKeys =>
                IF items[i].op = "delete"
                THEN ~HasKey(documents', items[i].key)
                ELSE /\ HasKey(documents', items[i].key)
                     /\ GetDoc(documents', items[i].key).etag = items[i].etag

\* C12: in both modes, when processing one document fails, the failure is
\* appended to metrics.errors under that document's key and every other
\* document of the run is still processed.
ErrorIsolation ==
    [][(pc'[Caller] = "done" /\ metrics'[Caller].errors # <<"sync">>) =>
          EachProcessed(mode'[Caller])]_vars

\* C12 witness: an incremental run failed on a.md, the first document it
\* worked on, and went on to add b.md.
ErrorIsolationReached ==
    /\ pc[Caller] = "done" /\ mode[Caller] = "incremental"
    /\ metrics[Caller].errors = <<"a.md">>
    /\ metrics[Caller].documentsAdded = 1
    /\ HasKey(documents, "b.md")

\* The record of key k is after the step what it was before.
RecordKept(k) ==
    /\ HasKey(documents', k) <=> HasKey(documents, k)
    /\ HasKey(documents, k) => GetDoc(documents', k) = GetDoc(documents, k)

\* The keys of the documents whose indexing failed in the run that the
\* step is.
FailedIndexing ==
    {k \in Range(metrics'[Caller].errors) :
        \E item \in Range(ItemsOf(mode'[Caller])) :
            item.key = k /\ item.op \in {"add", "modify"}}

\* C13 as stated: in either mode, when fetching or embedding a document
\* fails during a run, SyncState.documents[key] is after the run what it
\* was before the run.
FailedRecordUntouched ==
    [][(pc'[Caller] = "done" /\ metrics'[Caller].errors # <<"sync">>) =>
          \A k \in FailedIndexing : RecordKept(k)]_vars

\* C13 amended: in incremental mode the record is what it was before the
\* run; in full mode, which starts from an emptied SyncState, the key has
\* no record after the run.
FailedRecordByMode ==
    [][(pc'[Caller] = "done" /\ metrics'[Caller].errors # <<"sync">>) =>
          \A k \in FailedIndexing :
             IF mode'[Caller] = "incremental" THEN RecordKept(k)
             ELSE ~HasKey(documents', k)]_vars

\* C13 witness: an incremental run failed on a tracked document that had
\* changed remotely; its record still carries the old etag.
FailedRecordReached ==
    /\ pc[Caller] = "done" /\ mode[Caller] = "incremental"
    /\ "a.md" \in Range(metrics[Caller].errors)
    /\ remote["a.md"].present
    /\ HasKey(documents, "a.md")
    /\ GetDoc(documents, "a.md").etag # remote["a.md"].etag

\* The run that has just ended could not list the bucket.
ListingFailed == metrics[Caller].errors = <<"sync">>

\* C14 as stated: per-document failures stay inside performSync, and the
\* one failure that escapes it as an exception is a failure to list the
\* bucket: a run whose listing failed does not return metrics.
ListingFailureEscapes == ListingFailed => pc[Caller] # "done"

\* C14 amended: performSync always returns its metrics. A per-document
\* failure is an entry of errors under the document's key. A failure to
\* list the bucket ends the run at once: the metrics hold the single
\* error 'sync' and zero counters, and the index, SyncState and the files
\* on disk are as before the run.
FailuresReturned ==
    [][pc'[Caller] = "done" =>
          LET after == metrics'[Caller]
          IN IF after.errors = <<"sync">>
             THEN /\ after = [NoMetrics EXCEPT !.errors = <<"sync">>]
                  /\ UNCHANGED <<documents, diskSync, store, keyIndex,
                                 diskStore>>
             ELSE Range(after.errors) \subseteq Keys]_vars

\* C14 witness: a full run over an indexed bucket could not list it and
\* returned, the SyncState record still there.
ListingFailureReached ==
    /\ pc[Caller] = "done" /\ mode[Caller] = "full"
    /\ ListingFailed
    /\ documents # <<>>
    /\ store # <<>>

\* ------------------------------------------------------------------------
\* SpecRank: similaritySearch as a function of what the ANN query returns
\* ------------------------------------------------------------------------
\* The k a caller passes, and the number of neighbours asked of the store.
Ks == {<<>>} \cup {<<n>> : n \in 1..MaxK}

\* The ANN query's answers: at most n neighbours, nearest first. A
\* neighbour is the chunk found and its cosine distance, in tenths.
Distances == 0..(2 * Unit)

Ascending(ds) == \A i \in 1..(Len(ds) - 1) : ds[i] <= ds[i + 1]

Answers(n) ==
    {ds \in UNION {[1..l -> Distances] : l \in 0..n} : Ascending(ds)}

InitRank ==
    /\ remote = [k \in Keys |-> Absent]
    /\ InitServer
    /\ InitDetectIdle
    /\ ssK \in Ks
    /\ ssNeighbours \in Answers(MaxResults(ssK))
    /\ ssResults = <<>>
    /\ gfd = NoGet
    /\ auth = NoRequest
    /\ calm = FALSE

\* similaritySearch(query, k) returns.
SimilaritySearch ==
    /\ ssResults = <<>>
    /\ ssResults' = <<similaritySearch(ssNeighbours)>>
    /\ UNCHANGED <<remote, syncVars, ixVars, runVars, restarts, lastCall,
                   dcVars, trail, rebuild, search, ssK, ssNeighbours,
                   gfd, boot, auth, calm,
                   reply>>

NextRank == SimilaritySearch

SpecRank == InitRank /\ [][NextRank]_vars

\* C15: similaritySearch returns a sequence of at most k results (at most
\* maxResults when k is not given), in non-increasing order of score, the
\* score being 1 minus the neighbour's distance; no returned score is below
\* minSimilarityScore, every neighbour that reaches it is returned, and the
\* sequence is empty when none does.
SearchRanked ==
    ssResults # <<>> =>
        LET res == ssResults[1]
            reach == {i \in 1..Len(ssNeighbours) :
                         Unit - ssNeighbours[i] >= minSimilarityScore}
        IN /\ Len(res) <= MaxResults(ssK)
           /\ \A i \in 1..(Len(res) - 1) : res[i].score >= res[i + 1].score
           /\ \A i \in 1..Len(res) : res[i].score >= minSimilarityScore
           /\ {r.chunk : r \in Range(res)} = reach
           /\ \A i \in 1..Len(res) :
                 res[i].score = Unit - ssNeighbours[res[i].chunk]
           /\ reach = {} => res = <<>>

\* C15 witness: a search that asked for two neighbours, got two, and
\* returned the one that reaches the threshold.
SearchRankedReached ==
    /\ ssK = <<2>>
    /\ Len(ssNeighbours) = 2
    /\ ssResults # <<>>
    /\ Len(ssResults[1]) = 1

\* ------------------------------------------------------------------------
\* Spec: what refresh_index reports
\* ------------------------------------------------------------------------
\* C16: refresh_index reports success exactly when the errors list of the
\* metrics performSync returned is empty, and in every case its counters
\* are those of the metrics and errors_count the length of the list.
SuccessIffNoErrors ==
    pc[Caller] = "done" =>
        LET m == metrics[Caller]
        IN /\ reply.success <=> (m.errors = <<>>)
           /\ reply.documents_scanned = m.documentsScanned
           /\ reply.documents_added = m.documentsAdded
           /\ reply.documents_modified = m.documentsModified
           /\ reply.documents_deleted = m.documentsDeleted
           /\ reply.documents_unchanged = m.documentsUnchanged
           /\ reply.errors_count = Len(m.errors)

\* C16 witness: a run that added one document and failed on another was
\* reported as unsuccessful with the added document counted.
PartialSuccessReached ==
    /\ pc[Caller] = "done"
    /\ ~reply.success
    /\ reply.documents_added = 1
    /\ reply.errors_count = 1

\* ------------------------------------------------------------------------
\* SpecGet: get_full_document
\* ------------------------------------------------------------------------
GetRecord(k) ==
    [key |-> k, etag |-> "etag1", lastModified |-> "t1", chunkCount |-> 1,
     status |-> "indexed"]

\* SyncState.documents at the call: any set of the keys tracked.
GetStates ==
    {SelectSeq(<<GetRecord("404.md"), GetRecord("NotFound.md"),
                 GetRecord("a.md")>>, LAMBDA r : r.key \in ks) :
        ks \in SUBSET GetKeys}

InitGet ==
    /\ remote = [k \in Keys |-> Absent]
    /\ InitServer
    /\ InitDetectIdle
    /\ ssK = <<>> /\ ssNeighbours = <<>> /\ ssResults = <<>>
    /\ auth = NoRequest
    /\ calm = FALSE
    /\ gfd \in [key : GetKeys, documents : GetStates, sent : Sent,
                metaOk : BOOLEAN, result : {"none"}]

\* get_full_document settles.
GetFullDocument ==
    /\ gfd.result = "none"
    /\ gfd' = [gfd EXCEPT !.result =
                  getFullDocument(gfd.key, gfd.documents, gfd.sent,
                                  gfd.metaOk)]
    /\ UNCHANGED <<remote, syncVars, ixVars, runVars, restarts, lastCall,
                   dcVars, trail, rebuild, search, ssVars, boot, auth, calm,
                   reply>>

NextGet == GetFullDocument

SpecGet == InitGet /\ [][NextGet]_vars

\* C17: when the download fails because the object does not exist, the
\* caller receives the 'indexed but gone, resync' condition exactly when
\* the key has a SyncState record, and the generic not-found condition
\* when it has none; when the download fails in any other way the caller
\* receives neither of the two.
NotFoundByRecord ==
    gfd.result # "none" =>
        /\ gfd.sent = "NoSuchKey" =>
              gfd.result = IF HasKey(gfd.documents, gfd.key) THEN "stale"
                           ELSE "notFound"
        /\ gfd.sent \in {"noBody", "TimeoutError", "AccessDenied"} =>
              gfd.result \notin {"stale", "notFound"}

\* ------------------------------------------------------------------------
\* SpecStart: the server is stopped and started again
\* ------------------------------------------------------------------------
\* The bucket of this specification holds one key.
NextStart ==
    \/ RemotePut(KeySeq[1])
    \/ RemoteDelete(KeySeq[1])
    \/ \E m \in Modes : PerformSync(Caller, m)
    \/ Restart

SpecStart == Init /\ [][NextStart]_vars

Started == restarts' = restarts + 1

\* C18: when the server starts and the snapshot is absent, or loading it
\* or its chunk metadata fails, initialize() leaves an empty store and an
\* empty keyIndex.
InitializeFallsBackEmpty ==
    [][(Started /\ boot'.index \in {"absent", "failed"}) =>
          (store' = <<>> /\ keyIndex' = NoIndex)]_vars

\* The sync state file was missing, empty or unreadable at the latest start.
StartedEmpty == boot.syncState \in {"empty", "failed"}

ChunksOf(st, k) == LET Mine(c) == c.key = k IN SelectSeq(st, Mine)

\* The keys the run that the step is classified as unchanged.
UnchangedKeys ==
    Range(KeysOf(detectChanges(documents,
                               listMarkdownFiles(remote)).unchanged))

\* C22: an incremental run leaves every document it classified as
\* unchanged alone: its chunks in the store, its KeyIndex entry and its
\* SyncState record are after the run what they were before.
UnchangedUntouched ==
    [][(pc'[Caller] = "done" /\ mode'[Caller] = "incremental"
        /\ metrics'[Caller].errors # <<"sync">>) =>
          \A k \in UnchangedKeys :
             /\ ChunksOf(store', k) = ChunksOf(store, k)
             /\ keyIndex'[k] = keyIndex[k]
             /\ RecordKept(k)]_vars

\* ------------------------------------------------------------------------
\* SpecAuth: authMiddleware
\* ------------------------------------------------------------------------
\* Strings of at most n of the given pieces.
Strings(pieces, n) == UNION {[1..l -> pieces] : l \in 0..n}

Headers ==
    {Undefined} \cup
    {String(str) : str \in Strings({"Bearer", "bearer", "Basic", " ",
                                     "k1", "k2"}, MaxHeader)}

Queries ==
    {Undefined, [kind |-> "array", value |-> <<"k1">>]} \cup
    {String(str) : str \in Strings({" ", "k1", "k2"}, MaxQuery)}

InitAuth ==
    /\ remote = [k \in Keys |-> Absent]
    /\ InitServer
    /\ InitDetectIdle
    /\ ssK = <<>> /\ ssNeighbours = <<>> /\ ssResults = <<>>
    /\ gfd = NoGet
    /\ calm = FALSE
    /\ auth \in [enabled : BOOLEAN, apiKey : {<<>>, <<"k1">>},
                 path : {"/health", "/mcp"}, header : Headers,
                 query : Queries, settled : {FALSE}, outcome : {Passed}]

\* The middleware handles the request.
AuthMiddleware ==
    /\ ~auth.settled
    /\ auth' = [auth EXCEPT !.settled = TRUE,
                   !.outcome = authMiddleware(auth.enabled, auth.apiKey,
                                              auth.path, auth.header,
                                              auth.query)]
    /\ UNCHANGED <<remote, syncVars, ixVars, runVars, restarts, lastCall,
                   dcVars, trail, rebuild, search, ssVars, gfd, boot, calm,
                   reply>>

NextAuth == AuthMiddleware

SpecAuth == InitAuth /\ [][NextAuth]_vars

\* The request is one the middleware has to authenticate.
Guarded == auth.settled /\ auth.enabled /\ auth.path # "/health"

\* The Bearer token of a header value, <<>> when it carries none.
BearerToken(str) ==
    IF BearerMatch(Trim(str)) = <<>> THEN <<>>
    ELSE Trim(BearerMatch(Trim(str))[1])

QueryKey ==
    IF auth.query.kind = "string" THEN Trim(auth.query.value) ELSE <<>>

\* The request passes exactly when the key is non-empty and the configured
\* one; otherwise it gets a 401 and next is not called.
PassesOnlyWith(key) ==
    /\ auth.outcome.next <=> (key # <<>> /\ key = auth.apiKey)
    /\ ~auth.outcome.next => auth.outcome.status = 401

\* C23 as stated: the key is the Bearer token of the Authorization header
\* when the header is present, otherwise the api_key query parameter.
AuthByPresentHeader ==
    Guarded =>
        PassesOnlyWith(IF auth.header.kind = "string"
                       THEN BearerToken(auth.header.value)
                       ELSE QueryKey)

\* C23 amended: the key is the Bearer token of the Authorization header
\* when the header is present and not blank, otherwise the api_key query
\* parameter; a header that carries anything decides alone.
AuthByNonBlankHeader ==
    Guarded =>
        PassesOnlyWith(IF auth.header.kind = "string"
                          /\ Trim(auth.header.value) # <<>>
                       THEN BearerToken(auth.header.value)
                       ELSE QueryKey)

\* C23 witness: a request with a wrong Bearer token and the right api_key
\* query parameter was rejected.
AuthNotRescuedReached ==
    /\ Guarded
    /\ auth.apiKey = <<"k1">>
    /\ auth.header = String(<<"Bearer", " ", "k2">>)
    /\ auth.query = String(<<"k1">>)
    /\ ~auth.outcome.next
    /\ auth.outcome.status = 401

\* ------------------------------------------------------------------------
\* SpecSteps: one caller, one await at a time
\* SpecCrash: the same, and the process may stop at any await
\* ------------------------------------------------------------------------
\* The end of the loops: saveSyncState() (sync-service.ts 259).
SaveSyncState(c) ==
    /\ pc[c] = "processing"
    /\ queue[c] = <<>>
    /\ diskSync' = documents
    /\ pc' = [pc EXCEPT ![c] = "saving"]
    /\ UNCHANGED <<remote, documents, ixVars, mode, queue, metrics, prevRun,
                   restarts, lastCall, dcVars, trail, obsVars, reply>>

\* vectorStore.save() (sync-service.ts 262), and the metrics are returned.
SaveIndex(c) ==
    /\ pc[c] = "saving"
    /\ diskStore' = save(store, diskStore)
    /\ pc' = [pc EXCEPT ![c] = "done"]
    /\ UNCHANGED <<remote, syncVars, store, keyIndex, mode, queue, metrics,
                   prevRun, restarts, lastCall, dcVars, trail, obsVars, reply>>

NextSteps ==
    \/ \E k \in Keys : Resting /\ RemotePut(k)
    \/ \E k \in Keys : SearchDelete(k)
    \/ \E m \in Modes : StartSync(Caller, m)
    \/ ListFails(Caller)
    \/ Listed(Caller)
    \/ ProcessNext(Caller)
    \/ SaveSyncState(Caller)
    \/ SaveIndex(Caller)

SpecSteps == Init /\ [][NextSteps]_vars

\* The bucket of SpecCrash holds one key.
NextCrash ==
    \/ Resting /\ RemotePut(KeySeq[1])
    \/ SearchDelete(KeySeq[1])
    \/ \E m \in Modes : StartSync(Caller, m)
    \/ ListFails(Caller)
    \/ Listed(Caller)
    \/ ProcessNext(Caller)
    \/ SaveSyncState(Caller)
    \/ SaveIndex(Caller)
    \/ Restart

SpecCrash == Init /\ [][NextCrash]_vars

\* The place of a category in an incremental run.
Rank(op) ==
    CASE op = "delete" -> 1
      [] op = "modify" -> 2
      [] op = "add" -> 3

\* The step in which an incremental run processes the next document.
IncrementalStep ==
    /\ pc[Caller] = "processing"
    /\ mode[Caller] = "incremental"
    /\ queue[Caller] # <<>>
    /\ queue'[Caller] = Tail(queue[Caller])

\* C24: within one incremental run every deletion is processed before any
\* modification and every modification before any addition. A deletion
\* that succeeds leaves no keyIndex entry and no SyncState record for the
\* key. A modification that succeeds has removed the key's chunks and
\* added the new ones: keyIndex[key] then lists exactly the chunks of the
\* new content, each stored under the new etag, and no chunk of the key
\* with another etag is left in the store.
DeleteModifyAddOrder ==
    [][IncrementalStep =>
          LET item == Head(queue[Caller])
              left == queue'[Caller]
              before == metrics[Caller]
              after == metrics'[Caller]
              mine == ChunksOf(store', item.key)
          IN /\ \A i \in 1..Len(left) : Rank(item.op) <= Rank(left[i].op)
             /\ (item.op = "delete"
                    /\ after.documentsDeleted = before.documentsDeleted + 1) =>
                   /\ keyIndex'[item.key] = <<>>
                   /\ ~HasKey(documents', item.key)
             /\ (item.op = "modify"
                    /\ after.documentsModified = before.documentsModified + 1) =>
                   /\ Len(keyIndex'[item.key]) =
                         Len(splitDocument(remote[item.key].content))
                   /\ Range(keyIndex'[item.key]) = IdsOf(mine)
                   /\ \A i \in 1..Len(mine) : mine[i].etag = item.etag]_vars

\* C24 witness: an incremental run has deleted one document and then
\* replaced the chunks of a modified one.
DeleteModifyAddReached ==
    /\ pc[Caller] = "processing"
    /\ mode[Caller] = "incremental"
    /\ metrics[Caller].documentsDeleted = 1
    /\ metrics[Caller].documentsModified = 1
    /\ metrics[Caller].errors = <<>>
    /\ keyIndex[KeySeq[1]] # <<>>
    /\ keyIndex[KeySeq[2]] = <<>>

\* getIndexedFiles(): one entry per record with status 'indexed'.
getIndexedFiles(docs) ==
    LET Indexed(d) == d.status = "indexed"
        kept == SelectSeq(docs, Indexed)
    IN [i \in 1..Len(kept) |->
           [key |-> kept[i].key, chunkCount |-> kept[i].chunkCount,
            lastModified |-> kept[i].lastModified, etag |-> kept[i].etag,
            size |-> 0]]

\* C25: after every completed run, runs with per-document errors
\* included (a modified document whose re-indexing failed after its old
\* chunks were removed among them), every key that SyncState records as
\* indexed with chunks has ids in keyIndex and chunks in the store.
IndexedFilesHaveChunks ==
    pc[Caller] = "done" =>
        \A f \in Range(getIndexedFiles(documents)) :
            f.chunkCount > 0 =>
                /\ hasDocument(keyIndex, f.key)
                /\ ChunksOf(store, f.key) # <<>>

\* ------------------------------------------------------------------------
\* SpecIndex: removeByKey and the chunks of the other keys
\* ------------------------------------------------------------------------
\* A call of removeByKey has just returned or thrown.
Removed == lastCall'.op = "removeByKey"

\* C26: removeByKey(K) does not depend on the embedding provider (what it
\* leaves is what it leaves when the provider answers), and afterwards
\* every chunk of every other key is in the store as it was, with the
\* keyIndex entries of the other keys unchanged.
RemoveKeepsOthers ==
    [][Removed =>
          LET k == lastCall'.key
              r == removeByKey(store, keyIndex, diskStore, k, TRUE)
          IN /\ store' = r.store /\ keyIndex' = r.keyIndex
             /\ OtherChunks(store', k) = OtherChunks(store, k)
             /\ \A o \in Keys \ {k} : keyIndex'[o] = keyIndex[o]]_vars

\* C27: a removeByKey(K) that fails while it rebuilds the store leaves the
\* store with every chunk it held and keyIndex as it was.
FailedRemoveKeepsAll ==
    [][(Removed /\ lastCall'.threw) =>
          (store' = store /\ keyIndex' = keyIndex)]_vars

\* ------------------------------------------------------------------------
\* SpecCrash: the run after a crash
\* ------------------------------------------------------------------------
\* The process stopped inside a run, the server started again from files
\* it could read, and its first run since, an incremental one, has
\* returned without errors.
RecoveredClean ==
    /\ pc[Caller] = "done"
    /\ prevRun[Caller] = "crashed"
    /\ mode[Caller] = "incremental"
    /\ metrics[Caller].errors = <<>>
    /\ boot.index \in {"loaded", "absent"}
    /\ boot.syncState \in {"read", "empty"}

\* C28: after a crash inside a sync run and a restart from the persisted
\* files, the next incremental run that returns no error leaves every
\* remote document indexed exactly once: no key has more ids in keyIndex
\* or chunks in the store than its SyncState record counts, and nothing
\* is left of a key the bucket does not hold.
IndexedOnceAfterCrash ==
    RecoveredClean =>
        \A k \in Keys :
            IF remote[k].present
            THEN /\ HasKey(documents, k)
                 /\ Len(keyIndex[k]) <= GetDoc(documents, k).chunkCount
                 /\ Len(ChunksOf(store, k)) <= GetDoc(documents, k).chunkCount
            ELSE /\ keyIndex[k] = <<>>
                 /\ ChunksOf(store, k) = <<>>

\* ------------------------------------------------------------------------
\* SpecStart: the restart after a run without errors
\* ------------------------------------------------------------------------
\* The keys of SyncState are the keys of keyIndex.
SameKeys(docs, kx) ==
    \A k \in Keys : HasKey(docs, k) <=> hasDocument(kx, k)

\* C29: when the server is started again after a run that returned no
\* error and left SyncState and keyIndex with the same keys and keyIndex
\* listing exactly the stored chunks, and both files can be read, the keyIndex rebuilt from the snapshot has the same
\* keys and the same number of chunks per key as at the end of the run,
\* and the keys of the loaded SyncState are the keys of that keyIndex;
\* also when the run removed the last indexed document.
RestartRestoresIndex ==
    [][(/\ Started
        /\ pc[Caller] = "done"
        /\ metrics[Caller].errors = <<>>
        /\ SameKeys(documents, keyIndex)
        /\ \A k \in Keys : Range(keyIndex[k]) = StoredIds(store, k)
        /\ boot'.index \in {"loaded", "absent"}
        /\ boot'.syncState \in {"read", "empty"}) =>
          /\ \A k \in Keys : Len(keyIndex'[k]) = Len(keyIndex[k])
          /\ SameKeys(documents', keyIndex')]_vars

\* ------------------------------------------------------------------------
\* SpecSteps: when the sync state file is written
\* ------------------------------------------------------------------------
\* C30: the sync state file is not written while a run works through its
\* documents: it changes only in the step that follows the last document
\* of the run, at most once per run, and that step comes before the
\* run's closing vectorStore.save(), which leaves the file alone.
SyncStateSavedAtEnd ==
    [][/\ diskSync' # diskSync =>
             /\ pc[Caller] = "processing"
             /\ queue[Caller] = <<>>
             /\ pc'[Caller] = "saving"
             /\ diskSync' = documents
             /\ diskStore' = diskStore
       /\ pc[Caller] = "saving" =>
             /\ diskSync' = diskSync
             /\ pc'[Caller] \in {"saving", "done"}
             /\ pc'[Caller] = "done" => diskStore' = save(store, diskStore)
       /\ pc'[Caller] = "done" /\ pc[Caller] # "done" =>
             pc[Caller] \in {"saving", "listing"}]_vars

\* C30 witness: a run has indexed two documents and written the sync
\* state file, and its closing vectorStore.save() is still to come.
SyncStateSavedReached ==
    /\ pc[Caller] = "saving"
    /\ metrics[Caller].documentsAdded = 2
    /\ Len(diskSync) = 2
    /\ diskSync = documents

\* ------------------------------------------------------------------------
\* SpecPersist: the files cannot always be written
\* ------------------------------------------------------------------------
\* The end of the loops: saveSyncState() and vectorStore.save(), either of
\* which may fail to write, and the metrics are returned.
Persist(c) ==
    /\ pc[c] = "processing"
    /\ queue[c] = <<>>
    /\ \E syncOk \in BOOLEAN, saveOk \in BOOLEAN :
          Becomes(c, persistRun(Now(c), syncOk, saveOk))
    /\ pc' = [pc EXCEPT ![c] = "done"]
    /\ UNCHANGED <<remote, mode, prevRun, restarts, lastCall, dcVars, trail,
                   obsVars, reply>>

\* The bucket of SpecPersist holds one key.
NextPersist ==
    \/ Resting /\ RemotePut(KeySeq[1])
    \/ SearchDelete(KeySeq[1])
    \/ \E m \in Modes : StartSync(Caller, m)
    \/ ListFails(Caller)
    \/ Listed(Caller)
    \/ ProcessNext(Caller)
    \/ Persist(Caller)

SpecPersist == Init /\ [][NextPersist]_vars

\* The run ends and one of the two files was not written.
PersistFailed ==
    /\ pc[Caller] = "processing"
    /\ pc'[Caller] = "done"
    /\ \/ diskSync' # documents
       \/ diskStore' # save(store, diskStore)

\* C31: when writing the sync state file or the snapshot fails at the end
\* of a run, the run returns the metrics it had gathered: the counters
\* and the errors list are what they were after the last document, and
\* SyncState and the index in memory are untouched.
PersistFailureKeepsMetrics ==
    [][PersistFailed =>
          /\ metrics'[Caller] = metrics[Caller]
          /\ documents' = documents
          /\ store' = store
          /\ keyIndex' = keyIndex]_vars

\* C31 witness: a run that indexed a document without error has returned
\* although neither file holds what the run produced.
PersistFailureReached ==
    /\ pc[Caller] = "done"
    /\ metrics[Caller].documentsAdded = 1
    /\ metrics[Caller].errors = <<>>
    /\ documents # <<>>
    /\ diskSync = <<>>

\* ------------------------------------------------------------------------
\* SpecSteps: a run that cannot list the bucket
\* ------------------------------------------------------------------------
\* C32: a run whose listing fails, in either mode, changes nothing from
\* its entry to its return: the store, keyIndex, SyncState.documents and
\* both files are untouched while the listing is awaited and when it
\* fails (a full run has not cleared anything), and the metrics returned
\* have every counter at zero and exactly one entry in errors.
FailedListingMutatesNothing ==
    [][(pc'[Caller] = "listing"
          \/ (pc[Caller] = "listing" /\ pc'[Caller] = "done")) =>
          /\ UNCHANGED <<store, keyIndex, documents, diskSync, diskStore>>
          /\ pc'[Caller] = "done" =>
                LET after == metrics'[Caller]
                IN /\ after.documentsScanned = 0
                   /\ after.documentsAdded = 0
                   /\ after.documentsModified = 0
                   /\ after.documentsDeleted = 0
                   /\ after.documentsUnchanged = 0
                   /\ Len(after.errors) = 1]_vars

\* C32 witness: a full run over an index of two documents could not list
\* the bucket and has returned; index, SyncState and files are all there.
FailedListingReached ==
    /\ pc[Caller] = "done"
    /\ mode[Caller] = "full"
    /\ Len(metrics[Caller].errors) = 1
    /\ metrics[Caller].documentsScanned = 0
    /\ Len(documents) = 2
    /\ Len(store) = 2
    /\ diskSync = documents
    /\ diskStore = store

\* ------------------------------------------------------------------------
\* SpecConverge: incremental runs repeated for ever
\* ------------------------------------------------------------------------
\* No call fails.
NoFault == [k \in Keys |-> "none"]

\* What the run in flight and the run after it leave when no call fails
\* any more.
CleanOutcome(S, bucket) ==
    LET ended == afterItems(runItems(S, S.queue, bucket, NoFault))
    IN performSync(ended, "incremental", bucket, TRUE, NoFault)

\* Ids left behind by failed calls are never collected (addDocuments), so
\* the failures and the bucket changes of this specification keep within
\* MaxIds what the runs without failures will need.
CleanFits(S, bucket) ==
    /\ Fits(S)
    /\ Fits(afterItems(runItems(S, S.queue, bucket, NoFault)))
    /\ Fits(CleanOutcome(S, bucket))

\* The next document of the run is processed and no call fails.
ProcessClean(c) ==
    /\ pc[c] = "processing"
    /\ queue[c] # <<>>
    /\ LET S == runItems(Now(c), <<Head(queue[c])>>, remote, NoFault)
       IN /\ Fits(S)
          /\ Becomes(c, [S EXCEPT !.queue = Tail(queue[c])])
    /\ UNCHANGED <<remote, pc, mode, prevRun, restarts, lastCall, dcVars,
                   trail, obsVars, reply>>

\* The next document of the run is processed and a call fails; calls fail
\* only before the calm.
ProcessFailing(c) ==
    /\ ~calm
    /\ pc[c] = "processing"
    /\ queue[c] # <<>>
    /\ \E f \in Faults \ {"none"} :
          LET S == runItems(Now(c), <<Head(queue[c])>>, remote,
                            [k \in Keys |-> f])
              T == [S EXCEPT !.queue = Tail(queue[c])]
          IN /\ CleanFits(T, remote)
             /\ Becomes(c, T)
    /\ UNCHANGED <<remote, pc, mode, prevRun, restarts, lastCall, dcVars,
                   trail, obsVars, reply>>

\* The bucket changes only between runs and before the calm.
ConvergePut(k) ==
    /\ ~calm
    /\ Resting
    /\ RemotePut(k)
    /\ CleanFits(Now(Caller), remote')

ConvergeDelete(k) ==
    /\ ~calm
    /\ SearchDelete(k)
    /\ CleanFits(Now(Caller), remote')

\* From here on the bucket stays as it is and no call fails.
Calm ==
    /\ ~calm
    /\ calm' = TRUE
    /\ UNCHANGED <<remote, syncVars, ixVars, runVars, restarts, lastCall,
                   dcVars, trail, rebuild, search, ssVars, gfd, boot, auth,
                   reply>>

\* The timer fires.
Tick == StartSync(Caller, "incremental")

NextConverge ==
    \/ \E k \in Keys : ConvergePut(k)
    \/ \E k \in Keys : ConvergeDelete(k)
    \/ Calm
    \/ Tick
    \/ ~calm /\ ListFails(Caller)
    \/ Listed(Caller)
    \/ ProcessClean(Caller)
    \/ ProcessFailing(Caller)
    \/ SaveSyncState(Caller)
    \/ SaveIndex(Caller)

\* The loop of the run has a document left to process.
Processing == pc[Caller] = "processing" /\ queue[Caller] # <<>>

\* ProcessClean is enabled exactly when the loop has a document left:
\* the ids it needs are kept free by CleanFits.
ProcessCleanEnabled ==
    Processing =>
        Fits(runItems(Now(Caller), <<Head(queue[Caller])>>, remote, NoFault))

\* Weak fairness of ProcessClean, written with its enabling condition
\* (ProcessCleanEnabled is an invariant of the specification).
FairProcessClean ==
    []<>(~Processing) \/ []<><<ProcessClean(Caller)>>_vars

\* setInterval keeps calling performSync('incremental') (server.ts) and
\* every await of a run settles; the calm comes, which is the premise of
\* the property checked here.
SpecConverge ==
    /\ Init /\ [][NextConverge]_vars
    /\ WF_vars(Calm)
    /\ WF_vars(Tick)
    /\ WF_vars(Listed(Caller))
    /\ FairProcessClean
    /\ WF_vars(SaveSyncState(Caller))
    /\ WF_vars(SaveIndex(Caller))

\* SyncState tracks exactly the keys of the bucket with their etags.
TracksRemote ==
    \A k \in Keys :
        /\ HasKey(documents, k) <=> remote[k].present
        /\ HasKey(documents, k) => GetDoc(documents, k).etag = remote[k].etag

\* The run that has returned found nothing to do and nothing failed.
IdleRun ==
    /\ metrics[Caller].errors = <<>>
    /\ metrics[Caller].documentsAdded = 0
    /\ metrics[Caller].documentsModified = 0
    /\ metrics[Caller].documentsDeleted = 0

\* C33: once the bucket has stopped changing and no fetch or embedding
\* call fails any more, the repeated incremental runs keep returning and,
\* from some run on, every run returns no error and nothing added,
\* modified or deleted, and SyncState tracks exactly the remote keys with
\* the remote etags.
RetriesConverge ==
    /\ []<>(pc[Caller] = "done")
    /\ <>[](TracksRemote /\ (pc[Caller] = "done" => IdleRun))

\* An object of the bucket has an empty body.
EmptyBody == \E k \in Keys : remote[k].present /\ remote[k].content = ""

\* Unless an object with an empty body is there, the repeated runs do
\* converge.
ConvergeUnlessEmptyBody == <>[]EmptyBody \/ RetriesConverge

\* ------------------------------------------------------------------------
\* SpecRuns: every await of a run settles
\* ------------------------------------------------------------------------
\* A step of the loop can be taken whenever a document is left: it needs no
\* more ids than MaxIds when the fetch fails.
ProcessNextEnabled ==
    Processing =>
        \E f \in Faults :
            Fits(runItems(Now(Caller), <<Head(queue[Caller])>>, remote,
                          [k \in Keys |-> f]))

\* The listing returns or fails.
ListSettles == Listed(Caller) \/ ListFails(Caller)

\* Weak fairness of ProcessNext, written with its enabling condition
\* (ProcessNextEnabled is an invariant of the specification).
FairProcessNext ==
    []<>(~Processing) \/ []<><<ProcessNext(Caller)>>_vars

\* Weak fairness of ListSettles, written with its enabling condition: the
\* listing is awaited.
FairListSettles ==
    []<>(pc[Caller] # "listing") \/ []<><<ListSettles>>_vars

\* Each awaited call of a run returns or fails; nothing obliges a caller
\* to start a run.
SpecRuns ==
    /\ Init /\ [][NextSteps]_vars
    /\ FairListSettles
    /\ FairProcessNext
    /\ WF_vars(SaveSyncState(Caller))
    /\ WF_vars(SaveIndex(Caller))

\* No document is twice in the work list of the run.
NoRevisit ==
    \A i, j \in 1..Len(queue[Caller]) :
        queue[Caller][i].key = queue[Caller][j].key => i = j

\* The positions of a run, in the order the code goes through them; the
\* metrics of a run that has returned are dropped when the bucket changes.
Forward ==
    {<<"idle", "listing">>, <<"done", "listing">>, <<"done", "idle">>,
     <<"listing", "processing">>, <<"listing", "done">>,
     <<"processing", "saving">>, <<"saving", "done">>}

\* A step of a run goes forward, and a step of the loop takes the head of
\* the work list for good.
RunStepForward ==
    /\ pc'[Caller] # pc[Caller] => <<pc[Caller], pc'[Caller]>> \in Forward
    /\ pc[Caller] = "processing" /\ pc'[Caller] = "processing"
          => /\ queue[Caller] # <<>>
             /\ queue'[Caller] = Tail(queue[Caller])
    /\ pc[Caller] = "listing" /\ pc'[Caller] = "processing"
          => Len(queue'[Caller]) <= metrics'[Caller].documentsScanned
                                      + Len(documents)

\* C34: every performSync run that was started returns its metrics when
\* each awaited call returns or fails; on the way the run only goes
\* forward, each step of the loop removes the document it visited from
\* the work list, and no document is in the work list twice.
RunTerminates ==
    /\ [][RunStepForward]_vars
    /\ []NoRevisit
    /\ (pc[Caller] = "listing") ~> (pc[Caller] = "done")

\* A run of two documents, one of which failed, has returned.
RunTerminatesReached ==
    /\ pc[Caller] = "done"
    /\ metrics[Caller].documentsScanned = 2
    /\ Len(metrics[Caller].errors) = 1
    /\ metrics[Caller].documentsAdded = 1

\* ------------------------------------------------------------------------
\* SpecIndex: what removeByKey returns
\* ------------------------------------------------------------------------
\* C35: a removeByKey(K) that returns, returns the number of ids keyIndex
\* listed under K when it was called; for a key with no id in keyIndex it
\* returns 0 whatever the embedding provider would answer, and the store,
\* keyIndex and the snapshot on disk are as they were.
RemoveReturnsIdCount ==
    [][Removed =>
          LET k == lastCall'.key
          IN /\ ~lastCall'.threw => lastCall'.count = Len(keyIndex[k])
             /\ keyIndex[k] = <<>> =>
                   /\ ~lastCall'.threw
                   /\ lastCall'.count = 0
                   /\ store' = store
                   /\ keyIndex' = keyIndex
                   /\ diskStore' = diskStore]_vars

\* removeByKey returned 0 for a key without ids while the store held the
\* chunks of another key, after a call that removed the ids of a key.
RemoveReturnsReached ==
    /\ lastCall.op = "removeByKey"
    /\ ~lastCall.threw
    /\ lastCall.had = 0
    /\ lastCall.count = 0
    /\ store # <<>>
    /\ lastCall.prev.op = "removeByKey"
    /\ ~lastCall.prev.threw
    /\ lastCall.prev.count > 0

\* ------------------------------------------------------------------------
\* SpecSteps: the calls a full run makes on the vector index
\* ------------------------------------------------------------------------
\* The loop steps that call removeByKey: the deletions and the
\* modifications (processItem); indexDocument never calls it.
CallsRemoveByKey(item) == item.op \in {"delete", "modify"}

\* The listing of a run has just arrived.
ListingArrived(m) ==
    /\ pc[Caller] = "listing"
    /\ pc'[Caller] = "processing"
    /\ mode[Caller] = m

\* C36: a full run calls removeByKey(K) for every key K that SyncState
\* tracked when the run started: once its listing has arrived, the work
\* of the run holds a step that calls removeByKey with K.
FullRunRemovesByKey ==
    [][ListingArrived("full") =>
          \A k \in Keys :
              HasKey(documents, k) =>
                  \E i \in 1..Len(queue'[Caller]) :
                      /\ queue'[Caller][i].key = k
                      /\ CallsRemoveByKey(queue'[Caller][i])]_vars

\* What the full run does instead: the index is emptied in one call, and
\* no step of the run calls removeByKey.
FullRunClearsAll ==
    [][ListingArrived("full") =>
          /\ store' = <<>>
          /\ keyIndex' = NoIndex
          /\ documents' = <<>>
          /\ \A i \in 1..Len(queue'[Caller]) :
                ~CallsRemoveByKey(queue'[Caller][i])]_vars

\* ------------------------------------------------------------------------
\* Spec: the counters of a run
\* ------------------------------------------------------------------------
\* performSync has just returned to the caller.
Returned == pc'[Caller] = "done" /\ remote' = remote

\* The number of errors recorded for the keys of a set.
ErrorsFor(errors, keys) ==
    Cardinality({i \in 1..Len(errors) : errors[i] \in keys})

\* C37: in a run whose listing succeeded the counters account for every
\* scanned document once. Incremental: added + modified + unchanged +
\* errors of listed documents = scanned, and deleted + errors of
\* deletions = tracked keys absent from the listing. Full: added + errors
\* = scanned and modified = deleted = unchanged = 0.
CountersAccount ==
    [][(Returned /\ "sync" \notin Range(metrics'[Caller].errors)) =>
          LET m == metrics'[Caller]
              listed == Range(KeysOf(listMarkdownFiles(remote)))
              gone == Range(KeysOf(documents)) \ listed
          IN /\ m.documentsScanned = Cardinality(listed)
             /\ mode'[Caller] = "incremental" =>
                   /\ m.documentsAdded + m.documentsModified
                        + m.documentsUnchanged + ErrorsFor(m.errors, listed)
                      = m.documentsScanned
                   /\ m.documentsDeleted + ErrorsFor(m.errors, gone)
                      = Cardinality(gone)
             /\ mode'[Caller] = "full" =>
                   /\ m.documentsAdded + Len(m.errors) = m.documentsScanned
                   /\ m.documentsModified = 0
                   /\ m.documentsDeleted = 0
                   /\ m.documentsUnchanged = 0]_vars

\* An incremental run has returned that deleted one document and failed
\* on the one it scanned.
CountersAccountReached ==
    /\ pc[Caller] = "done"
    /\ mode[Caller] = "incremental"
    /\ metrics[Caller].documentsScanned = 1
    /\ metrics[Caller].documentsDeleted = 1
    /\ Len(metrics[Caller].errors) = 1
    /\ remote[metrics[Caller].errors[1]].present

\* ------------------------------------------------------------------------
\* Spec: SyncState, the listing and the chunks after a run without errors
\* ------------------------------------------------------------------------
\* A run has returned without errors and the bucket is as the run listed
\* it.
ZeroErrorRun ==
    /\ pc[Caller] = "done"
    /\ metrics[Caller].errors = <<>>

\* The chunks of the key are numbered 0..n-1 in the store, each carries
\* totalChunks = n and the etag.
ChunksMatch(st, k, n, etag) ==
    LET mine == ChunksOf(st, k)
    IN /\ Len(mine) = n
       /\ \A i \in 1..Len(mine) :
             /\ mine[i].chunkIndex = i - 1
             /\ mine[i].totalChunks = n
             /\ mine[i].etag = etag

\* C38: after a run with zero errors, every tracked key has in SyncState
\* the etag the listing of the run gave it, every chunk of the key in the
\* index carries that etag, and its chunks are numbered 0..n-1 with
\* totalChunks = n = the chunkCount of its record.
EtagsAndChunksAgree ==
    ZeroErrorRun =>
        \A k \in Keys :
            HasKey(documents, k) =>
                LET rec == GetDoc(documents, k)
                IN /\ remote[k].present
                   /\ rec.etag = remote[k].etag
                   /\ ChunksMatch(store, k, rec.chunkCount, rec.etag)

\* ------------------------------------------------------------------------
\* Spec: the status of the records
\* ------------------------------------------------------------------------
\* getStats()
getStats(docs) ==
    [totalDocuments |-> Len(docs),
     indexed |-> Cardinality({i \in 1..Len(docs) : docs[i].status = "indexed"}),
     errors |-> Cardinality({i \in 1..Len(docs) : docs[i].status = "error"})]

\* C39: from an empty SyncState on, every record has status indexed;
\* getIndexedFiles returns one entry for each tracked key, and no other,
\* with the chunkCount, lastModified and etag of that key's record; and
\* getStats reports errors = 0 and indexed = totalDocuments.
OnlyIndexedRecords ==
    LET files == getIndexedFiles(documents)
        stats == getStats(documents)
    IN /\ \A i \in 1..Len(documents) : documents[i].status = "indexed"
       /\ \A k \in Keys :
             Cardinality({i \in 1..Len(files) : files[i].key = k})
                = IF HasKey(documents, k) THEN 1 ELSE 0
       /\ \A f \in Range(files) :
             /\ f.chunkCount = GetDoc(documents, f.key).chunkCount
             /\ f.lastModified = GetDoc(documents, f.key).lastModified
             /\ f.etag = GetDoc(documents, f.key).etag
       /\ stats.errors = 0
       /\ stats.indexed = stats.totalDocuments

\* Two documents are tracked, one of them without chunks, after a run
\* that recorded an error.
OnlyIndexedReached ==
    /\ pc[Caller] = "done"
    /\ metrics[Caller].errors # <<>>
    /\ Len(documents) = 2
    /\ \E i \in 1..2 : documents[i].chunkCount = 0

====
